---- MODULE Spec2Model ----
(***************************************************************************)
(* Selector resolution and typed action execution (ae.core.skills):        *)
(*   - the Action model and its wire encoding (action_classes.py),         *)
(*   - the interactive skills drag_and_drop, select_option, submit_form,   *)
(*   - the Action History (playwright_action_history.py),                  *)
(*   - the locator classifier (selector_parser.py),                        *)
(*   - the selector generator (selector_generator.py),                     *)
(*   - the action executor (playwright_action_executor.py).                *)
(* Each part has its own specification over the shared variables:          *)
(* SpecCodec, SpecSkill, SpecHistory, SpecClassifier, SpecGenerator and    *)
(* SpecExecutor.                                                           *)
(***************************************************************************)
EXTENDS Integers, Sequences, FiniteSets, TLC

VARIABLES
    \* --- Action model / wire codec ---
    act,        \* the action under test (a dataclass instance)
    wire,       \* the dictionary produced by to_dict / json.loads
    text,       \* the JSON text produced by json.dumps
    dec,        \* the decoded action (or the raised error)
    cpc,        \* position of the codec run
    \* --- interactive skills ---
    skill,                  \* which skill is running
    entry,                  \* "skill": the public coroutine, "do": do_<skill> called directly
    pc,                     \* position inside the invocation
    wait_before_execution,  \* the caller's pre-delay argument
    active_page,            \* whether the browser has an active page to hand out
    invId,                  \* identity of this invocation's detect_dom_changes closure
    observers,              \* callbacks subscribed at the DOM mutation observer
    dom_changes_detected,   \* the closure variable written by detect_dom_changes
    fired,                  \* descriptions delivered to this invocation's callback
    element_tag_name,       \* tag read from the attached element
    outer_html,             \* diagnostics captured before the mutating step
    primary_err,            \* error text of a failed primary attempt
    fallback_res,           \* what the scripted fallback produced
    attached,               \* what each attach wait of this invocation returned
    steps,                  \* how often the primary attempt and the fallback were run
    result,                 \* the dict returned by do_<skill>
    outcome,                \* what the invocation gave its caller
    recorded,               \* ActionRecords this invocation added to the Action History
    invocations,            \* completed invocations
    \* --- Action History ---
    history,            \* PlaywrightActionHistory.history
    max_history_size,   \* PlaywrightActionHistory.max_history_size
    file,               \* the persisted form at history_file_path
    hpc,                \* "new" before __init__, "ready" after
    appended,           \* every record add_action created since construction
    loaded,             \* the records _load_history put in memory
    nextId,             \* stands for datetime.now(): the next record's timestamp
    hret,               \* what the last call on the history gave its caller
    \* --- classifier ---
    locator,            \* the locator string handed to Selector.from_string
    parsed,             \* what parse_selector made of it
    sel,                \* what Selector.from_string returned or raised
    playwright,         \* the locator strings converted back from sel and parsed
    kpc,                \* position of the classification run
    \* --- selector generator ---
    selector_with_mmid, \* the locator handed to SelectorGenerator.parse
    dom,                \* the page: what its queries answer for this call
    xpath_selector,     \* what parse gave its caller
    gpc,                \* position of the generator run
    \* --- action executor ---
    actions_json,       \* the list execute_actions was given and iterates over
    results,            \* the result entries appended so far
    calls,              \* skill coroutines started and finished, in order
    eidx,               \* index of the action being executed
    epc                 \* position of the executor run

codecVars == <<act, wire, text, dec, cpc>>
skillVars == <<skill, entry, pc, wait_before_execution, active_page, invId, observers,
               dom_changes_detected, fired, element_tag_name, outer_html, primary_err,
               fallback_res,
               attached, steps, result, outcome, recorded, invocations>>
historyVars == <<history, max_history_size, file, hpc, appended, loaded, nextId, hret>>
classVars == <<locator, parsed, sel, playwright, kpc>>
genVars == <<selector_with_mmid, dom, xpath_selector, gpc>>
execVars == <<actions_json, results, calls, eidx, epc>>
vars == <<codecVars, skillVars, historyVars, classVars, genVars, execVars>>

-----------------------------------------------------------------------------
(* Python values.  Optional[T] is None or a value; every dataclass field and *)
(* every dictionary value is held as an optional so that None, "" and a      *)
(* missing key stay distinguishable.                                         *)

None == <<>>
Some(v) == <<v>>

\* Python truthiness of an Optional[str]: `if self.url:`
TruthyStr(o) == o # None /\ o # Some("")

\* Python truthiness of a bool field: `if self.go_back:`
TruthyBool(o) == o # None /\ o[1]

\* A dict is a function from its keys; {} has no keys.
EmptyDict == [k \in {} |-> None]

\* dict.get(key): None when the key is missing
Get(d, k) == IF k \in DOMAIN d THEN d[k] ELSE None

\* dict.get(key, default)
GetDefault(d, k, dflt) == IF k \in DOMAIN d THEN d[k] ELSE Some(dflt)

-----------------------------------------------------------------------------
(* Selector (action_classes.py)                                              *)

SelectorTypes == {"attributeValueSelector", "tagContainsSelector", "xpathSelector"}

\* Selector.to_dict: "attribute" is written only when it is truthy
Selector_to_dict(s) ==
    ("type" :> Some(s.type)) @@ ("value" :> Some(s.value)) @@
    (IF TruthyStr(s.attribute) THEN "attribute" :> s.attribute ELSE EmptyDict)

\* Selector.from_dict: attribute = data.get("attribute")
Selector_from_dict(data) ==
    [type |-> data["type"][1], value |-> data["value"][1],
     attribute |-> Get(data, "attribute")]

\* `self.selector.to_dict() if self.selector else None` (a dataclass instance is truthy)
OptSelector_to_dict(o) == IF o # None THEN Some(Selector_to_dict(o[1])) ELSE None

\* `Selector.from_dict(selector_data) if selector_data else None` (an empty dict is falsy)
OptSelector_from_dict(sd) ==
    IF sd # None /\ DOMAIN sd[1] # {} THEN Some(Selector_from_dict(sd[1])) ELSE None

-----------------------------------------------------------------------------
(* The 13 Action variants: to_dict and from_dict of each dataclass           *)

ActionType ==
    [ClickAction |-> "click", DoubleClickAction |-> "doubleClick",
     NavigateAction |-> "navigate", TypeAction |-> "type", SelectAction |-> "select",
     HoverAction |-> "hover", WaitAction |-> "wait", ScrollAction |-> "scroll",
     SubmitAction |-> "submit", DragAndDropAction |-> "dragAndDrop",
     ScreenshotAction |-> "screenshot", GetDropDownOptionsAction |-> "getDropDownOptions",
     SelectDropDownOptionAction |-> "selectDropDownOption"]

Classes == DOMAIN ActionType

TypeKey(cls) == "type" :> Some(ActionType[cls])

ClickAction_to_dict(a) ==
    TypeKey("ClickAction") @@ ("selector" :> OptSelector_to_dict(a.selector)) @@
    (IF a.x # None THEN "x" :> a.x ELSE EmptyDict) @@
    (IF a.y # None THEN "y" :> a.y ELSE EmptyDict)

ClickAction_from_dict(data) ==
    [cls |-> "ClickAction", selector |-> OptSelector_from_dict(Get(data, "selector")),
     x |-> Get(data, "x"), y |-> Get(data, "y")]

\* DoubleClick, Hover, Submit, GetDropDownOptions: {"type", "selector"}
SelectorOnly_to_dict(a) ==
    TypeKey(a.cls) @@ ("selector" :> OptSelector_to_dict(a.selector))

SelectorOnly_from_dict(cls, data) ==
    [cls |-> cls, selector |-> OptSelector_from_dict(Get(data, "selector"))]

\* NavigateAction.to_dict: url, go_back, go_forward are written only when truthy
NavigateAction_to_dict(a) ==
    TypeKey("NavigateAction") @@ ("selector" :> None) @@
    (IF TruthyStr(a.url) THEN "url" :> a.url ELSE EmptyDict) @@
    (IF TruthyBool(a.go_back) THEN "go_back" :> a.go_back ELSE EmptyDict) @@
    (IF TruthyBool(a.go_forward) THEN "go_forward" :> a.go_forward ELSE EmptyDict)

NavigateAction_from_dict(data) ==
    [cls |-> "NavigateAction", url |-> Get(data, "url"),
     go_back |-> GetDefault(data, "go_back", FALSE),
     go_forward |-> GetDefault(data, "go_forward", FALSE)]

\* TypeAction and SelectDropDownOptionAction: {"type", "selector", "text"}
TextAction_to_dict(a) ==
    TypeKey(a.cls) @@ ("selector" :> OptSelector_to_dict(a.selector)) @@ ("text" :> a.text)

TextAction_from_dict(cls, data) ==
    [cls |-> cls, selector |-> OptSelector_from_dict(Get(data, "selector")),
     text |-> GetDefault(data, "text", "")]

SelectAction_to_dict(a) ==
    TypeKey("SelectAction") @@ ("selector" :> OptSelector_to_dict(a.selector)) @@
    ("value" :> a.value)

SelectAction_from_dict(data) ==
    [cls |-> "SelectAction", selector |-> OptSelector_from_dict(Get(data, "selector")),
     value |-> GetDefault(data, "value", "")]

WaitAction_to_dict(a) ==
    TypeKey("WaitAction") @@ ("selector" :> None) @@ ("time_seconds" :> a.time_seconds)

WaitAction_from_dict(data) ==
    [cls |-> "WaitAction", time_seconds |-> GetDefault(data, "time_seconds", 1)]

ScrollAction_to_dict(a) ==
    TypeKey("ScrollAction") @@ ("selector" :> OptSelector_to_dict(a.selector)) @@
    ("value" :> a.value) @@
    (IF TruthyBool(a.up) THEN "up" :> a.up ELSE EmptyDict) @@
    (IF TruthyBool(a.down) THEN "down" :> a.down ELSE EmptyDict)

ScrollAction_from_dict(data) ==
    [cls |-> "ScrollAction", selector |-> OptSelector_from_dict(Get(data, "selector")),
     value |-> GetDefault(data, "value", ""),
     up |-> GetDefault(data, "up", FALSE), down |-> GetDefault(data, "down", FALSE)]

\* DragAndDropAction.to_dict: "selector" repeats the target selector
DragAndDropAction_to_dict(a) ==
    TypeKey("DragAndDropAction") @@
    ("selector" :> OptSelector_to_dict(a.target_selector)) @@
    ("source_selector" :> OptSelector_to_dict(a.source_selector)) @@
    ("target_selector" :> OptSelector_to_dict(a.target_selector))

DragAndDropAction_from_dict(data) ==
    [cls |-> "DragAndDropAction",
     source_selector |-> OptSelector_from_dict(Get(data, "source_selector")),
     target_selector |-> OptSelector_from_dict(Get(data, "target_selector"))]

ScreenshotAction_to_dict(a) ==
    TypeKey("ScreenshotAction") @@ ("selector" :> None) @@ ("file_path" :> a.file_path)

ScreenshotAction_from_dict(data) ==
    [cls |-> "ScreenshotAction", file_path |-> GetDefault(data, "file_path", "")]

SelectorOnlyClasses ==
    {"DoubleClickAction", "HoverAction", "SubmitAction", "GetDropDownOptionsAction"}
TextClasses == {"TypeAction", "SelectDropDownOptionAction"}

\* a drag-and-drop whose main selector is its source
selector_OfSource(a) ==
    CASE a.cls = "DragAndDropAction" -> a.source_selector
      [] a.cls \in {"NavigateAction", "WaitAction", "ScreenshotAction"} -> None
      [] OTHER -> a.selector

\* action.selector: the dataclass field, or the property of the variants that
\* have no such field (DragAndDropAction: `return self.target_selector`)
selector(a) ==
    CASE a.cls = "DragAndDropAction" -> a.target_selector
      [] a.cls \in {"NavigateAction", "WaitAction", "ScreenshotAction"} -> None
      [] OTHER -> a.selector

\* action.to_dict(): the method of the action's own class
to_dict(a) ==
    CASE a.cls = "ClickAction" -> ClickAction_to_dict(a)
      [] a.cls \in SelectorOnlyClasses -> SelectorOnly_to_dict(a)
      [] a.cls = "NavigateAction" -> NavigateAction_to_dict(a)
      [] a.cls \in TextClasses -> TextAction_to_dict(a)
      [] a.cls = "SelectAction" -> SelectAction_to_dict(a)
      [] a.cls = "WaitAction" -> WaitAction_to_dict(a)
      [] a.cls = "ScrollAction" -> ScrollAction_to_dict(a)
      [] a.cls = "DragAndDropAction" -> DragAndDropAction_to_dict(a)
      [] a.cls = "ScreenshotAction" -> ScreenshotAction_to_dict(a)

\* ActionFactory._action_classes[action_type].from_dict(data)
from_dict(cls, data) ==
    CASE cls = "ClickAction" -> ClickAction_from_dict(data)
      [] cls \in SelectorOnlyClasses -> SelectorOnly_from_dict(cls, data)
      [] cls = "NavigateAction" -> NavigateAction_from_dict(data)
      [] cls \in TextClasses -> TextAction_from_dict(cls, data)
      [] cls = "SelectAction" -> SelectAction_from_dict(data)
      [] cls = "WaitAction" -> WaitAction_from_dict(data)
      [] cls = "ScrollAction" -> ScrollAction_from_dict(data)
      [] cls = "DragAndDropAction" -> DragAndDropAction_from_dict(data)
      [] cls = "ScreenshotAction" -> ScreenshotAction_from_dict(data)

\* raised by create_action for a tag that is no key of _action_classes
UnknownActionType == [cls |-> "ValueError", message |-> "Unknown action type"]

\* a factory without the membership test: an unknown tag is decoded as a click
create_action_Lenient(data) ==
    LET action_type == Get(data, "type")
        known == {c \in Classes : Some(ActionType[c]) = action_type}
    IN  IF known = {} THEN from_dict("ClickAction", data)
        ELSE from_dict(CHOOSE c \in known : TRUE, data)

\* ActionFactory.create_action: dispatch on data.get("type")
create_action(data) ==
    LET action_type == Get(data, "type")
        known == {c \in Classes : Some(ActionType[c]) = action_type}
    IN  IF known = {} THEN UnknownActionType
        ELSE from_dict(CHOOSE c \in known : TRUE, data)

-----------------------------------------------------------------------------
(* json.dumps / json.loads on the wire dictionaries.  The JSON text is the  *)
(* list of "key": value members in writing order; a nested selector object *)
(* is a nested member list.                                                *)

KeyOrder == <<"type", "selector", "source_selector", "target_selector", "value",
              "attribute", "text", "x", "y", "url", "go_back", "go_forward",
              "time_seconds", "up", "down", "file_path">>

SelectorKeys == {"selector", "source_selector", "target_selector"}

Members(d) == SelectSeq(KeyOrder, LAMBDA k : k \in DOMAIN d)

\* a flat object (no nested objects): the selector dictionaries
dumps_flat(d) == [i \in 1..Len(Members(d)) |-> <<Members(d)[i], d[Members(d)[i]]>>]

loads_flat(t) ==
    [k \in {t[i][1] : i \in 1..Len(t)} |-> t[CHOOSE i \in 1..Len(t) : t[i][1] = k][2]]

json_dumps(d) ==
    [i \in 1..Len(Members(d)) |->
        LET k == Members(d)[i]
        IN  <<k, IF k \in SelectorKeys /\ d[k] # None
                 THEN Some(dumps_flat(d[k][1])) ELSE d[k]>>]

json_loads(t) ==
    [k \in {t[i][1] : i \in 1..Len(t)} |->
        LET v == t[CHOOSE i \in 1..Len(t) : t[i][1] = k][2]
        IN  IF k \in SelectorKeys /\ v # None THEN Some(loads_flat(v[1])) ELSE v]

\* action_to_json(action) = json.dumps(action.to_dict())
action_to_json(a) == json_dumps(to_dict(a))

\* json_to_action(json_str) = ActionFactory.create_action(json.loads(json_str))
json_to_action(t) == create_action(json_loads(t))

\* ActionFactory.create_actions_from_list: the comprehension
\* [cls.create_action(d) for d in actions_json]; the first element whose
\* create_action raises ends the comprehension and no list is returned
create_actions_from_list(actions_data) ==
    LET made == [i \in 1..Len(actions_data) |-> create_action(actions_data[i])]
        failed == {i \in 1..Len(made) : made[i].cls = "ValueError"}
    IN  IF failed # {} THEN made[CHOOSE i \in failed : \A j \in failed : i <= j]
        ELSE [cls |-> "list", actions |-> made]

\* json_to_actions(json_str): json.loads of a JSON array (the list of its
\* element texts), then create_actions_from_list
json_to_actions(t) ==
    create_actions_from_list([i \in 1..Len(t) |-> json_loads(t[i])])

-----------------------------------------------------------------------------
(* Well-formed actions: field values the dataclass constructors accept      *)

Strs == {"", "a@b.com"}
OptStr == {None} \cup {Some(v) : v \in Strs}
OptInt == {None, Some(0), Some(1)}
Bools == {Some(FALSE), Some(TRUE)}
Attributes == {Some("id"), Some("name")}

\* the selectors of the data model: an attribute selector names its attribute, the
\* other two kinds carry none
Selectors ==
    [type : {"attributeValueSelector"}, value : {"foo"}, attribute : Attributes]
    \cup [type : {"tagContainsSelector"}, value : {"foo"}, attribute : {None}]
    \cup [type : {"xpathSelector"}, value : {"//div"}, attribute : {None}]
OptSelector == {None} \cup {Some(s) : s \in Selectors}

WellFormed(cls) ==
    CASE cls = "ClickAction" ->
            [cls : {cls}, selector : OptSelector, x : OptInt, y : OptInt]
      [] cls \in SelectorOnlyClasses -> [cls : {cls}, selector : OptSelector]
      [] cls = "NavigateAction" ->
            [cls : {cls}, url : OptStr, go_back : Bools, go_forward : Bools]
      [] cls \in TextClasses ->
            [cls : {cls}, selector : OptSelector, text : {Some(v) : v \in Strs}]
      [] cls = "SelectAction" ->
            [cls : {cls}, selector : OptSelector, value : {Some(v) : v \in Strs}]
      [] cls = "WaitAction" -> [cls : {cls}, time_seconds : {Some(0), Some(1)}]
      [] cls = "ScrollAction" ->
            [cls : {cls}, selector : OptSelector, value : {Some(v) : v \in Strs},
             up : Bools, down : Bools]
      [] cls = "DragAndDropAction" ->
            [cls : {cls}, source_selector : OptSelector, target_selector : OptSelector]
      [] cls = "ScreenshotAction" -> [cls : {cls}, file_path : {Some(v) : v \in Strs}]

NoAction == [cls |-> "none"]

CodecInit ==
    /\ act = NoAction /\ wire = EmptyDict /\ text = <<>> /\ dec = NoAction
    /\ cpc = "idle"

\* the caller constructs an action
Build ==
    /\ cpc = "idle"
    /\ \E cls \in Classes : \E a \in WellFormed(cls) : act' = a
    /\ cpc' = "built"
    /\ UNCHANGED <<wire, text, dec, skillVars, historyVars, classVars, genVars, execVars>>

\* a.to_dict()
ToDict ==
    /\ cpc = "built"
    /\ wire' = to_dict(act)
    /\ cpc' = "encoded"
    /\ UNCHANGED <<act, text, dec, skillVars, historyVars, classVars, genVars, execVars>>

\* ActionFactory.create_action(a.to_dict())
CreateAction ==
    /\ cpc = "encoded"
    /\ dec' = create_action(wire)
    /\ cpc' = "decoded"
    /\ UNCHANGED <<act, wire, text, skillVars, historyVars, classVars, genVars, execVars>>

\* action_to_json(a)
ActionToJson ==
    /\ cpc = "built"
    /\ text' = action_to_json(act)
    /\ cpc' = "dumped"
    /\ UNCHANGED <<act, wire, dec, skillVars, historyVars, classVars, genVars, execVars>>

\* json_to_action(action_to_json(a))
JsonToAction ==
    /\ cpc = "dumped"
    /\ dec' = json_to_action(text)
    /\ cpc' = "decoded"
    /\ UNCHANGED <<act, wire, text, skillVars, historyVars, classVars, genVars, execVars>>

\* wire dictionaries a caller can hand to the factory: the encoding of a
\* well-formed action, with one key removed or the tag replaced
MaxListLen == 2
UnknownTags == {"teleport"}
Without(d, k) == [x \in DOMAIN d \ {k} |-> d[x]]
Retagged(d, t) == [d EXCEPT !["type"] = Some(t)]
Mangled(d, k, t) ==
    IF t # "" THEN Retagged(d, t) ELSE IF k # "" THEN Without(d, k) ELSE d

\* elements of a JSON array handed to json_to_actions
ListElements ==
    <<to_dict([cls |-> "WaitAction", time_seconds |-> Some(1)]),
     to_dict([cls |-> "ScreenshotAction", file_path |-> Some("")]),
     Retagged(to_dict([cls |-> "WaitAction", time_seconds |-> Some(1)]), "teleport"),
     Without(to_dict([cls |-> "ScreenshotAction", file_path |-> Some("")]), "type")>>

\* ActionFactory.create_action(data) on a dictionary the caller supplies
Receive ==
    /\ cpc = "idle"
    /\ \E cls \in Classes : \E a \in WellFormed(cls) :
       \E k \in {""} \cup DOMAIN to_dict(a) : \E t \in {""} \cup UnknownTags :
          /\ wire' = Mangled(to_dict(a), k, t)
          /\ dec' = create_action(wire')
    /\ cpc' = "received"
    /\ UNCHANGED <<act, text, skillVars, historyVars, classVars, genVars, execVars>>

\* json_to_actions(json_str) on a JSON array the caller supplies
JsonToActions ==
    /\ cpc = "idle"
    /\ \E n \in 0..MaxListLen : \E ds \in [1..n -> DOMAIN ListElements] :
          /\ text' = [i \in 1..n |-> json_dumps(ListElements[ds[i]])]
          /\ dec' = json_to_actions(text')
    /\ cpc' = "listed"
    /\ UNCHANGED <<act, wire, skillVars, historyVars, classVars, genVars, execVars>>

CodecReset ==
    /\ cpc \in {"decoded", "received", "listed"}
    /\ act' = NoAction /\ wire' = EmptyDict /\ text' = <<>> /\ dec' = NoAction
    /\ cpc' = "idle"
    /\ UNCHANGED <<skillVars, historyVars, classVars, genVars, execVars>>

CodecNext ==
    \/ Build \/ ToDict \/ CreateAction \/ ActionToJson \/ JsonToAction
    \/ Receive \/ JsonToActions \/ CodecReset

-----------------------------------------------------------------------------
(* The interactive skills: drag_and_drop.py, select_option.py,              *)
(* submit_form.py.  A message is the list of its parts.                     *)

MaxInvocations == 2
MaxFires == 2

Skills == {"drag_and_drop", "select_option", "submit_form"}

\* wait_before_execution as the caller passes it; "null" is a value that is no number
\* (playwright_action_executor passes action_data.get("wait_before_execution", 0.0) on)
WaitInputs == {"0.0", "1.0", "null"}
IsNumber(w) == w # "null"

\* descriptions the mutation observer can hand to a callback
Descriptions == {"d1", "d2"}

\* error texts of the driver's exceptions
Errors == {"E1", "E2"}

AttachOutcomes == {"element", "none", "timeout"}

Tags(s) ==
    CASE s = "select_option" -> {"select", "div"}
      [] s = "submit_form" -> {"form", "button", "input", "div"}
      [] s = "drag_and_drop" -> {"div"}

\* `tok in message`
Contains(msg, tok) == tok = "" \/ \E i \in 1..Len(msg) : msg[i] = tok

NoActivePage == "ValueError: No active page found. OpenURL command opens a new page."
RefetchDirective == "Get all_fields DOM"
NewElements == "As a consequence of this action, new elements have appeared in view:"

Guidance(s) ==
    CASE s = "drag_and_drop" ->
            "Verify selectors using GET_DOM_WITH_CONTENT_TYPE(all_fields) and try again"
      [] s = "select_option" ->
            "since the selector is invalid or the value doesn't exist. Proceed by retrieving DOM again."
      [] s = "submit_form" ->
            "since the selector is invalid or the form submission failed. Proceed by retrieving DOM again."

UnableText(s) ==
    CASE s = "drag_and_drop" -> "Unable to complete drag-and-drop."
      [] s = "select_option" -> "Unable to select option"
      [] s = "submit_form" -> "Unable to submit form"

\* the `except Exception as e` handler of do_<skill>
Unable(s, e) ==
    [summary_message |-> <<UnableText(s), Guidance(s)>>,
     detailed_message |-> <<UnableText(s), Guidance(s), "Error:", e>>]

\* a successful return of do_<skill>: msg, and msg with the captured outer HTML
Done(msg, html) ==
    [summary_message |-> <<msg>>, detailed_message |-> <<msg, "outer HTML:", html>>]

NoResult == [summary_message |-> <<>>, detailed_message |-> <<>>]
NoOutcome == [kind |-> "none", value |-> <<>>]

NumTargets(s) == IF s = "drag_and_drop" THEN 2 ELSE 1

ElementMissing_Ignored(a) == FALSE

\* `if source is None or target is None` / `if element is None`
ElementMissing(a) == \E i \in 1..Len(a) : a[i] = "none"

\* add_playwright_action(action_type, action_data, url, title, success, ...):
\* the five parameters without a default
RequiredPositional == 5
\* add_playwright_action(select_action): the arguments the skills pass
SuppliedPositional == 1

\* the string the skill returns after the window closed
ReturnMessage(s, res, changes) ==
    IF TruthyStr(changes)
    THEN <<"Success:">> \o res.summary_message \o <<NewElements, changes[1], RefetchDirective>>
    ELSE res.detailed_message

SkillInit ==
    /\ skill = "submit_form" /\ entry = "skill" /\ pc = "idle"
    /\ wait_before_execution = "0.0" /\ active_page = TRUE
    /\ invId = 0 /\ observers = {}
    /\ dom_changes_detected = None /\ fired = <<>>
    /\ element_tag_name = None /\ outer_html = None
    /\ primary_err = None /\ fallback_res = None
    /\ attached = <<>> /\ steps = [primary |-> 0, fallback |-> 0]
    /\ result = NoResult /\ outcome = NoOutcome
    /\ recorded = 0 /\ invocations = 0

inputs == <<skill, entry, wait_before_execution, active_page, invId>>
locals == <<dom_changes_detected, fired, element_tag_name, outer_html, primary_err,
            fallback_res, attached, steps, result>>
others == <<codecVars, historyVars, classVars, genVars, execVars, recorded, invocations>>

\* an exception leaves the coroutine
Raise(e) == outcome' = [kind |-> "raised", value |-> <<e>>] /\ pc' = "done"

\* do_<skill> returns res: to the skill (which goes on to its settle delay) or,
\* when do_<skill> was called directly, to that caller
DoReturns(res) ==
    /\ result' = res
    /\ pc' = IF entry = "do" THEN "done" ELSE "settle"
    /\ outcome' = IF entry = "do" THEN [kind |-> "result", value |-> res.detailed_message]
                  ELSE outcome

\* a caller starts drag_and_drop / select_option / submit_form, or do_<skill>
Invoke ==
    /\ pc = "idle" /\ invocations < MaxInvocations
    /\ \E s \in Skills, e \in {"skill", "do"}, w \in WaitInputs, p \in BOOLEAN :
          /\ skill' = s /\ entry' = e /\ wait_before_execution' = w
          /\ active_page' = p
          /\ pc' = IF e = "do" THEN "predelay"
                   ELSE IF s = "drag_and_drop" THEN "build" ELSE "get_page"
    /\ invId' = invId + 1
    /\ dom_changes_detected' = None /\ fired' = <<>>
    /\ element_tag_name' = None /\ outer_html' = None
    /\ primary_err' = None /\ fallback_res' = None
    /\ attached' = <<>> /\ steps' = [primary |-> 0, fallback |-> 0]
    /\ result' = NoResult /\ outcome' = NoOutcome /\ recorded' = 0
    /\ UNCHANGED <<observers, codecVars, historyVars, classVars, genVars, execVars, invocations>>

\* drag_and_drop line 37: action_classes.py defines no from_strings_with_generator, so
\* the attribute lookup raises; were it defined, `page` is a local of the coroutine
\* that is assigned only on line 47, and evaluating the arguments raises
DragBuildAction ==
    /\ pc = "build" /\ skill = "drag_and_drop"
    /\ \E e \in {"AttributeError: from_strings_with_generator",
                  "UnboundLocalError: page"} : Raise(e)
    /\ UNCHANGED <<inputs, observers, locals, others>>

\* browser_manager.get_current_page() and the `if page is None` check
GetCurrentPage ==
    /\ pc = "get_page"
    /\ LET page == active_page
       IN  IF ~page THEN Raise(NoActivePage)
           ELSE /\ pc' = IF skill = "select_option" THEN "build" ELSE "subscribe"
                /\ UNCHANGED outcome
    /\ UNCHANGED <<inputs, observers, locals, others>>

\* select_option lines 43-48: the from-live constructor gives an action or nothing;
\* an action is handed to add_playwright_action as its only argument
SelectBuildAction ==
    /\ pc = "build" /\ skill = "select_option"
    /\ \E select_action \in BOOLEAN :
          IF select_action
          THEN IF SuppliedPositional < RequiredPositional
               THEN Raise("TypeError: add_playwright_action() missing required positional arguments")
                    /\ UNCHANGED recorded
               ELSE pc' = "subscribe" /\ recorded' = recorded + 1
                    /\ UNCHANGED outcome
          ELSE pc' = "subscribe" /\ UNCHANGED <<outcome, recorded>>
    /\ UNCHANGED <<inputs, observers, locals, codecVars, historyVars, classVars, genVars, execVars, invocations>>

\* subscribe(detect_dom_changes)
Subscribe ==
    /\ pc = "subscribe"
    /\ observers' = observers \cup {invId}
    /\ pc' = "predelay"
    /\ UNCHANGED <<inputs, locals, outcome, others>>

\* do_<skill>: `if wait_before_execution > 0: await asyncio.sleep(...)`, before the try
PreDelay ==
    /\ pc = "predelay"
    /\ IF IsNumber(wait_before_execution)
       THEN pc' = "attach" /\ UNCHANGED outcome
       ELSE Raise("TypeError: '>' not supported")
    /\ UNCHANGED <<inputs, observers, locals, others>>

\* asyncio.wait_for(page.wait_for_selector(sel, state="attached", timeout=2000), 2000),
\* once per target, then the None check
AttachWait ==
    /\ pc = "attach"
    /\ \E r \in AttachOutcomes :
          /\ attached' = Append(attached, r)
          /\ IF r = "timeout" THEN DoReturns(Unable(skill, "TimeoutError"))
             ELSE IF Len(attached') < NumTargets(skill)
             THEN pc' = "attach" /\ UNCHANGED <<result, outcome>>
             ELSE IF ElementMissing(attached')
             THEN DoReturns(Unable(skill, "ValueError: element not found"))
             ELSE pc' = "prep" /\ UNCHANGED <<result, outcome>>
    /\ UNCHANGED <<inputs, observers, dom_changes_detected, fired, element_tag_name,
                   outer_html, primary_err, fallback_res, steps, others>>

\* scroll_into_view_if_needed / wait_for_element_state("visible"): failures are swallowed
VisibilityPrep ==
    /\ pc = "prep"
    /\ \E ok \in BOOLEAN : pc' = "diag"
    /\ UNCHANGED <<inputs, observers, locals, outcome, others>>

\* tag name and outer HTML of the target(s); only do_drag_and_drop guards it
DiagnosticCapture ==
    /\ pc = "diag"
    /\ \E ok \in BOOLEAN :
          IF ok
          THEN /\ \E tag \in Tags(skill) : element_tag_name' = Some(tag)
               /\ outer_html' = Some("<outerHTML>")
               /\ pc' = "primary" /\ UNCHANGED <<result, outcome>>
          ELSE IF skill = "drag_and_drop"
          THEN /\ outer_html' = Some("<unavailable>")
               /\ pc' = "primary" /\ UNCHANGED <<element_tag_name, result, outcome>>
          ELSE /\ DoReturns(Unable(skill, "EvaluateError"))
               /\ UNCHANGED <<element_tag_name, outer_html>>
    /\ UNCHANGED <<inputs, observers, dom_changes_detected, fired, primary_err,
                   fallback_res, attached, steps, others>>

\* what the in-page drag-and-drop script returns when it does not throw
JsDragResults ==
    {"Executed JavaScript drag-and-drop", "drag_and_drop: Source element not found",
     "drag_and_drop: Target element not found"}

\* submit_form_element / perform_submit_button_click / submit_parent_form: the string of
\* the in-page script, or the "Error ..." string of the helper's own except clause
FormMsgs ==
    {"Successfully submitted form", "submit_form: Form element not found",
     "submit_form: Element is not a form", "Failed to submit form",
     "Error submitting form"}
ButtonMsgs ==
    {"Successfully clicked submit button", "submit_form: Submit button not found",
     "Failed to click submit button", "Error clicking submit button"}
ParentMsgs ==
    {"Successfully submitted parent form", "Failed to submit parent form",
     "No parent form found for the element", "Error finding/submitting parent form"}

DragPrimary_NoFallback ==
    /\ pc = "primary" /\ skill = "drag_and_drop"
    /\ steps' = [steps EXCEPT !.primary = @ + 1]
    /\ \/ /\ DoReturns(Done("Dragged and dropped using Playwright drag_to.", outer_html[1]))
          /\ UNCHANGED primary_err
       \/ \E e \in Errors : primary_err' = Some(e) /\ DoReturns(Unable(skill, e))
    /\ UNCHANGED <<inputs, observers, dom_changes_detected, fired, element_tag_name,
                   outer_html, fallback_res, attached, others>>

\* do_drag_and_drop lines 134-150: source_locator.drag_to(target_locator, timeout=800);
\* a failure is logged and control falls through to the JavaScript fallback
DragPrimary ==
    /\ pc = "primary" /\ skill = "drag_and_drop"
    /\ steps' = [steps EXCEPT !.primary = @ + 1]
    /\ \/ /\ DoReturns(Done("Dragged and dropped using Playwright drag_to.", outer_html[1]))
          /\ UNCHANGED primary_err
       \/ /\ \E e \in Errors : primary_err' = Some(e)
          /\ pc' = "fallback"
          /\ UNCHANGED <<result, outcome>>
    /\ UNCHANGED <<inputs, observers, dom_changes_detected, fired, element_tag_name,
                   outer_html, fallback_res, attached, others>>

\* do_drag_and_drop lines 151-187: page.evaluate(js_code, source, target); an exception
\* reaches the outer handler, which reports that exception alone
DragFallback ==
    /\ pc = "fallback" /\ skill = "drag_and_drop"
    /\ steps' = [steps EXCEPT !.fallback = @ + 1]
    /\ \/ \E js_result \in JsDragResults :
             /\ fallback_res' = [raised |-> FALSE, value |-> js_result]
             /\ DoReturns(Done(js_result, outer_html[1]))
       \/ \E e \in Errors :
             /\ fallback_res' = [raised |-> TRUE, value |-> e]
             /\ DoReturns(Unable(skill, e))
    /\ UNCHANGED <<inputs, observers, dom_changes_detected, fired, element_tag_name,
                   outer_html, primary_err, attached, others>>

\* a do_select_option that attempts the selection whatever the tag
SelectPrimary_NoTagCheck ==
    /\ pc = "primary" /\ skill = "select_option"
    /\ steps' = [steps EXCEPT !.primary = @ + 1]
    /\ \/ /\ DoReturns(Done("Select menu option selected", outer_html[1]))
          /\ UNCHANGED primary_err
       \/ \E e \in Errors :
             /\ primary_err' = Some(e)
             /\ DoReturns(Unable(skill, e))
    /\ UNCHANGED <<inputs, observers, dom_changes_detected, fired, element_tag_name,
                   outer_html, fallback_res, attached, others>>

\* do_select_option lines 121-136: the tag check, then element.select_option(value=value);
\* any exception reaches the handler
SelectPrimary ==
    /\ pc = "primary" /\ skill = "select_option"
    /\ IF element_tag_name # Some("select")
       THEN /\ DoReturns(Unable(skill, "ValueError: not a select element"))
            /\ UNCHANGED <<steps, primary_err>>
       ELSE /\ steps' = [steps EXCEPT !.primary = @ + 1]
            /\ \/ /\ DoReturns(Done("Select menu option selected", outer_html[1]))
                  /\ UNCHANGED primary_err
               \/ \E e \in Errors :
                     /\ primary_err' = Some(e)
                     /\ DoReturns(Unable(skill, e))
    /\ UNCHANGED <<inputs, observers, dom_changes_detected, fired, element_tag_name,
                   outer_html, fallback_res, attached, others>>

\* do_submit_form lines 110-147: the branch on the tag; each helper turns its own
\* exception into a message, so only get_attribute can reach the handler
SubmitPrimary ==
    /\ pc = "primary" /\ skill = "submit_form"
    /\ \/ /\ element_tag_name = Some("form")
          /\ steps' = [steps EXCEPT !.primary = @ + 1]
          /\ \E msg \in FormMsgs : DoReturns(Done(msg, outer_html[1]))
          /\ UNCHANGED primary_err
       \/ /\ element_tag_name \in {Some("button"), Some("input")}
          /\ \/ /\ DoReturns(Unable(skill, "GetAttributeError"))
                /\ UNCHANGED <<steps, primary_err>>
             \/ \E element_type \in {"submit", "text"} :
                   /\ steps' = [steps EXCEPT !.primary = @ + 1]
                   /\ IF element_type = "submit" \/ element_tag_name = Some("button")
                      THEN \E msg \in ButtonMsgs : DoReturns(Done(msg, outer_html[1]))
                      ELSE \E msg \in ParentMsgs : DoReturns(Done(msg, outer_html[1]))
                   /\ UNCHANGED primary_err
       \/ /\ element_tag_name \notin {Some("form"), Some("button"), Some("input")}
          /\ steps' = [steps EXCEPT !.primary = @ + 1]
          /\ \E msg \in ParentMsgs : DoReturns(Done(msg, outer_html[1]))
          /\ UNCHANGED primary_err
    /\ UNCHANGED <<inputs, observers, dom_changes_detected, fired, element_tag_name,
                   outer_html, fallback_res, attached, others>>

\* `await asyncio.sleep(0.1)` after do_<skill> returned
Settle ==
    /\ pc = "settle"
    /\ pc' = "unsubscribe"
    /\ UNCHANGED <<inputs, observers, locals, outcome, others>>

\* unsubscribe(detect_dom_changes)
Unsubscribe ==
    /\ pc = "unsubscribe"
    /\ observers' = observers \ {invId}
    /\ pc' = "report"
    /\ UNCHANGED <<inputs, locals, outcome, others>>

\* take_screenshots, notify_user and the return statement of the skill
Report ==
    /\ pc = "report"
    /\ outcome' = [kind |-> "returned",
                   value |-> ReturnMessage(skill, result, dom_changes_detected)]
    /\ pc' = "done"
    /\ UNCHANGED <<inputs, observers, locals, others>>

\* the mutation observer calls detect_dom_changes(changes) of this invocation
MutationFires ==
    /\ invId \in observers /\ pc \notin {"idle", "done"}
    /\ Len(fired) < MaxFires
    /\ \E changes \in Descriptions :
          /\ dom_changes_detected' = Some(changes)
          /\ fired' = Append(fired, changes)
    /\ UNCHANGED <<inputs, pc, observers, element_tag_name, outer_html, primary_err,
                   fallback_res, attached, steps, result, outcome, others>>

\* the caller has the outcome; the next action may begin
Finish ==
    /\ pc = "done"
    /\ pc' = "idle"
    /\ invocations' = invocations + 1
    /\ UNCHANGED <<inputs, observers, locals, outcome, codecVars, historyVars,
                   classVars, genVars, execVars, recorded>>

SkillNext ==
    \/ Invoke \/ DragBuildAction \/ GetCurrentPage \/ SelectBuildAction \/ Subscribe
    \/ PreDelay \/ AttachWait \/ VisibilityPrep \/ DiagnosticCapture
    \/ DragPrimary \/ DragFallback \/ SelectPrimary \/ SubmitPrimary
    \/ Settle \/ Unsubscribe \/ Report \/ MutationFires \/ Finish

-----------------------------------------------------------------------------
(* The Action History: playwright_action_history.py                         *)

MaxSize == 2            \* the largest max_history_size tried
MaxAppends == 3         \* add_action calls over all runs
MaxFileRecords == 2     \* records in a file left by an earlier program
MaxLimit == 2           \* the largest limit asked of get_recent_actions

\* the arguments add_action is called with here
HistoryTypes == {"click"}
Successes == {TRUE}
RecordFields == {"timestamp", "action_type", "action_data", "success"}

\* action_data (Dict[str, Any]) as callers may pass it: JSON-native values, a tuple
\* among the values, a value json cannot serialise
ActionDatas == {"{'x': 1}", "{'p': (1, 2)}", "{'el': <ElementHandle>}"}

\* dataclasses.asdict(record)
asdict(record) == [k \in RecordFields |-> record[k]]

\* json.dump raises TypeError on a value it has no encoding for
JsonSerializable(v) == v # "{'el': <ElementHandle>}"

\* json.dump followed by json.load: a tuple is written as an array and read as a list
json_value(v) == IF v = "{'p': (1, 2)}" THEN "{'p': [1, 2]}" ELSE v
json_record(d) == [d EXCEPT !["action_data"] = json_value(@)]

\* PlaywrightActionRecord(**record)
PlaywrightActionRecord(d) ==
    [timestamp |-> d["timestamp"], action_type |-> d["action_type"],
     action_data |-> d["action_data"], success |-> d["success"]]

\* lst[start:] as Python slices it: a negative start counts from the end, 0 is the front
PySliceFrom(lst, start) ==
    LET n == Len(lst)
        i == IF start < 0 THEN (IF n + start < 0 THEN 0 ELSE n + start)
             ELSE (IF start > n THEN n ELSE start)
    IN  SubSeq(lst, i + 1, n)

\* add_action lines 132-135: `if len(self.history) > self.max_history_size:
\*     self.history = self.history[-self.max_history_size:]`
Trim(h, size) == IF Len(h) > size THEN PySliceFrom(h, 0 - size) ELSE h

\* _load_history lines 76-78: `except Exception as e:` logs and sets self.history = [];
\* nothing leaves _load_history
load_raises(f) == FALSE

\* _load_history: every record of the file, or [] when there is no file or it cannot
\* be read
load_history(f) ==
    IF f.state = "valid" THEN [i \in 1..Len(f.data) |-> PlaywrightActionRecord(f.data[i])]
    ELSE <<>>

SaveOutcomes == {"ok", "open_failed", "dump_failed"}

\* how a _save_history of log h ends: the environment decides it (how), and json.dump
\* fails on its own when a record holds a value it cannot serialise
SaveResult(h, how) ==
    IF how = "ok" /\ \E i \in 1..Len(h) : ~JsonSerializable(h[i].action_data)
    THEN "dump_failed" ELSE how

save_raises_Unhandled(res) == res # "ok"

\* _save_history lines 90-91: `except Exception as e:` logs; nothing leaves _save_history
save_raises(res) == FALSE

save_history_Append(f, h, how) ==
    IF SaveResult(h, how) = "ok" /\ h # <<>>
    THEN [state |-> "valid",
          data |-> Append(f.data, json_record(asdict(h[Len(h)])))]
    ELSE f

\* _save_history: the whole log is written; open() or json.dump may fail, which is
\* logged and swallowed (a failed dump leaves a truncated file)
save_history(f, h, how) ==
    LET res == SaveResult(h, how)
    IN  IF res = "ok"
        THEN [state |-> "valid", data |-> [i \in 1..Len(h) |-> json_record(asdict(h[i]))]]
        ELSE IF res = "open_failed" THEN f
        ELSE [state |-> "corrupt", data |-> <<>>]

\* get_recent_actions line 196: `self.history[-limit:] if self.history else []`
recent_actions(h, limit) == IF h # <<>> THEN PySliceFrom(h, 0 - limit) ELSE <<>>

\* a file written earlier, by any program and with any max_history_size
OldFile(n) ==
    [state |-> "valid",
     data |-> [i \in 1..n |-> [timestamp |-> 0 - i, action_type |-> "navigate",
                               action_data |-> "{'x': 1}", success |-> TRUE]]]

NoCall == [op |-> "none", kind |-> "none", value |-> <<>>, save |-> "none", limit |-> 0]
Returned(op, value, save, limit) ==
    [op |-> op, kind |-> "returned", value |-> value, save |-> save, limit |-> limit]
Raised(op, save) ==
    [op |-> op, kind |-> "raised", value |-> <<>>, save |-> save, limit |-> 0]

HistoryInit ==
    /\ hpc = "new" /\ history = <<>> /\ max_history_size = 0
    /\ file \in {[state |-> "absent", data |-> <<>>], [state |-> "corrupt", data |-> <<>>]}
                \cup {OldFile(n) : n \in 0..MaxFileRecords}
    /\ appended = <<>> /\ loaded = <<>> /\ nextId = 1 /\ hret = NoCall

\* PlaywrightActionHistory.__init__(history_file_path, max_history_size)
Construct ==
    /\ hpc = "new"
    /\ \E size \in 0..MaxSize : max_history_size' = size
    /\ history' = load_history(file)
    /\ loaded' = load_history(file)
    /\ appended' = <<>>
    /\ IF load_raises(file)
       THEN hpc' = "new" /\ hret' = Raised("init", "none")
       ELSE hpc' = "ready" /\ hret' = Returned("init", <<>>, "none", 0)
    /\ UNCHANGED <<file, nextId, codecVars, skillVars, classVars, genVars, execVars>>

\* PlaywrightActionHistory.add_action: append, trim, save, return the record
add_action ==
    /\ hpc = "ready" /\ nextId <= MaxAppends
    /\ \E action_type \in HistoryTypes, action_data \in ActionDatas,
          success \in Successes, how \in SaveOutcomes :
          LET record == [timestamp |-> nextId, action_type |-> action_type,
                         action_data |-> action_data, success |-> success]
              log == Trim(Append(history, record), max_history_size)
              res == SaveResult(log, how)
          IN  /\ history' = log
              /\ file' = save_history(file, log, how)
              /\ appended' = Append(appended, record)
              /\ hret' = IF save_raises(res) THEN Raised("add", res)
                         ELSE Returned("add", <<record>>, res, 0)
    /\ nextId' = nextId + 1
    /\ UNCHANGED <<max_history_size, hpc, loaded, codecVars, skillVars, classVars, genVars, execVars>>

\* PlaywrightActionHistory.clear_history
clear_history ==
    /\ hpc = "ready"
    /\ history' = <<>>
    /\ \E how \in SaveOutcomes :
          /\ file' = save_history(file, <<>>, how)
          /\ hret' = IF save_raises(SaveResult(<<>>, how)) THEN Raised("clear", how)
                     ELSE Returned("clear", <<>>, SaveResult(<<>>, how), 0)
    /\ appended' = <<>> /\ loaded' = <<>>
    /\ UNCHANGED <<max_history_size, hpc, nextId, codecVars, skillVars, classVars, genVars, execVars>>

\* PlaywrightActionHistory.get_recent_actions(limit)
get_recent_actions ==
    /\ hpc = "ready"
    /\ \E limit \in 0..MaxLimit :
          hret' = Returned("recent", recent_actions(history, limit), "none", limit)
    /\ UNCHANGED <<history, max_history_size, file, hpc, appended, loaded, nextId,
                   codecVars, skillVars, classVars, genVars, execVars>>

\* the program ends; the file stays
Exit ==
    /\ hpc = "ready"
    /\ hpc' = "new" /\ history' = <<>> /\ max_history_size' = 0
    /\ appended' = <<>> /\ loaded' = <<>> /\ hret' = NoCall
    /\ UNCHANGED <<file, nextId, codecVars, skillVars, classVars, genVars, execVars>>

HistoryNext == Construct \/ add_action \/ clear_history \/ get_recent_actions \/ Exit

-----------------------------------------------------------------------------
(* The classifier: selector_parser.py and Selector.from_string.  A locator  *)
(* string is the sequence of its characters.                                *)

MaxLocatorLen == 3      \* locators of every length up to this one are classified

Letter ==
   {"a", "b", "c", "d", "e", "f", "g", "h", "i", "j", "k", "l", "m", "n", "o", "p",
    "q", "r", "s", "t", "u", "v", "w", "x", "y", "z", "A", "B", "C", "D", "E", "F",
    "G", "H", "I", "J", "K", "L", "M", "N", "O", "P", "Q", "R", "S", "T", "U", "V",
    "W", "X", "Y", "Z"}
Digit == {"0", "1", "2", "3", "4", "5", "6", "7", "8", "9"}
\* [a-zA-Z0-9_-]
NameChar == Letter \cup Digit \cup {"_", "-"}
\* what str.strip() removes and what \s matches
Whitespace == {" ", "\t", "\n"}
Quote == "\""

\* str.startswith(p) / re.match of a literal prefix
StartsWith(s, p) == Len(s) >= Len(p) /\ SubSeq(s, 1, Len(p)) = p

\* p occurs in s at index i
InfixAt(s, p, i) == i >= 1 /\ i + Len(p) - 1 <= Len(s) /\ SubSeq(s, i, i + Len(p) - 1) = p

\* `p in s`
Infix(s, p) == \E i \in 1..Len(s) : InfixAt(s, p, i)

\* the least index of a set of indices of s, or Len(s) + 1
First(s, c) == IF c = {} THEN Len(s) + 1 ELSE CHOOSE m \in c : \A k \in c : m <= k

\* \s* skipped from index i on: the index of the next character that is no whitespace
FirstInk(s, i) == First(s, {m \in i..Len(s) : s[m] \notin Whitespace})

\* [^"]* skipped from index i on: the index of the next quote
FirstQuote(s, i) == First(s, {m \in i..Len(s) : s[m] = "\""})

\* str.strip()
strip(s) ==
    LET c == {m \in 1..Len(s) : s[m] \notin Whitespace}
    IN  IF c = {} THEN <<>>
        ELSE SubSeq(s, CHOOSE m \in c : \A k \in c : m <= k,
                       CHOOSE m \in c : \A k \in c : m >= k)

\* [a-zA-Z][a-zA-Z0-9_-]*
IsName(s) == Len(s) >= 1 /\ s[1] \in Letter /\ \A i \in 2..Len(s) : s[i] \in NameChar

\* SelectorParser.xpath_patterns
xpath_patterns ==
   {<<"/", "/">>, <<"/", "h", "t", "m", "l">>, <<".", ".", "/">>,
    <<"a", "n", "c", "e", "s", "t", "o", "r", ":", ":">>,
    <<"d", "e", "s", "c", "e", "n", "d", "a", "n", "t", ":", ":">>,
    <<"f", "o", "l", "l", "o", "w", "i", "n", "g", ":", ":">>,
    <<"p", "r", "e", "c", "e", "d", "i", "n", "g", ":", ":">>,
    <<"p", "a", "r", "e", "n", "t", ":", ":">>,
    <<"c", "h", "i", "l", "d", ":", ":">>, <<"s", "e", "l", "f", ":", ":">>,
    <<"a", "t", "t", "r", "i", "b", "u", "t", "e", ":", ":">>,
    <<"n", "a", "m", "e", "s", "p", "a", "c", "e", ":", ":">>}

\* SelectorParser.attribute_patterns: the attributes written [attr="value"]
attribute_patterns ==
   <<"name", "type", "value", "placeholder", "title", "alt", "src", "href">>
AttrName ==
   [name |-> <<"n", "a", "m", "e">>, type |-> <<"t", "y", "p", "e">>,
    value |-> <<"v", "a", "l", "u", "e">>,
    placeholder |-> <<"p", "l", "a", "c", "e", "h", "o", "l", "d", "e", "r">>,
    title |-> <<"t", "i", "t", "l", "e">>, alt |-> <<"a", "l", "t">>,
    src |-> <<"s", "r", "c">>, href |-> <<"h", "r", "e", "f">>]

\* SelectorParser.text_patterns
text_patterns ==
   {<<"t", "e", "x", "t", "=">>, <<"t", "e", "x", "t", ":">>,
    <<"c", "o", "n", "t", "a", "i", "n", "s", "(", "t", "e", "x", "t", "(", ")">>,
    <<"n", "o", "r", "m", "a", "l", "i", "z", "e", "-", "s", "p", "a", "c", "e", "(", "t", "e", "x", "t", "(", ")">>}

\* what follows the tag name in SelectorParser.css_patterns (or nothing follows it)
css_followers == {"[", ":", ">", "+", "~"} \cup Whitespace

\* ParsedSelector.data
Data(type, value, attribute) == [type |-> type, value |-> value, attribute |-> attribute]

\* _is_xpath
is_xpath(s) == \E p \in xpath_patterns : StartsWith(s, p)

\* ^\[attr="([^"]+)"\]$
BracketMatch(s, a) ==
    LET pre == <<"[">> \o AttrName[a] \o <<"=", Quote>>
    IN  /\ StartsWith(s, pre) /\ Len(s) >= Len(pre) + 3
        /\ s[Len(s)] = "]" /\ s[Len(s) - 1] = Quote
        /\ \A i \in (Len(pre) + 1)..(Len(s) - 2) : s[i] # Quote
BracketGroup(s, a) == SubSeq(s, Len(AttrName[a]) + 4, Len(s) - 2)

\* _parse_attribute_selector: a ParsedSelector's data, or None
parse_attribute_selector(s) ==
    IF Len(s) >= 2 /\ s[1] = "#" /\ IsName(Tail(s))
    THEN Some(Data("attributeValueSelector", <<"#">> \o Tail(s), Some("id")))
    ELSE IF Len(s) >= 2 /\ s[1] = "." /\ IsName(Tail(s))
    THEN Some(Data("attributeValueSelector", <<".">> \o Tail(s), Some("class")))
    ELSE LET hits == {i \in 1..Len(attribute_patterns) :
                        BracketMatch(s, attribute_patterns[i])}
         IN  IF hits = {} THEN None
             ELSE LET a == attribute_patterns[CHOOSE i \in hits : \A j \in hits : i <= j]
                  IN  Some(Data("attributeValueSelector", BracketGroup(s, a), Some(a)))

\* re.search(lit \s* [= \s*] "([^"]+)", s): group 1 of the leftmost match, or None
SearchQuoted(s, lit, withEquals) ==
    LET open(i) == LET e == FirstInk(s, i + Len(lit))
                   IN  IF ~withEquals THEN e
                       ELSE IF e <= Len(s) /\ s[e] = "=" THEN FirstInk(s, e + 1)
                       ELSE Len(s) + 1
        close(i) == FirstQuote(s, open(i) + 1)
        hit(i) == /\ InfixAt(s, lit, i)
                  /\ open(i) <= Len(s) /\ s[open(i)] = Quote
                  /\ close(i) <= Len(s) /\ close(i) >= open(i) + 2
        hits == {i \in 1..Len(s) : hit(i)}
    IN  IF hits = {} THEN None
        ELSE LET i == CHOOSE i \in hits : \A j \in hits : i <= j
             IN  Some(SubSeq(s, open(i) + 1, close(i) - 1))

\* _parse_text_selector: a ParsedSelector's data, or None
parse_text_selector(s) ==
    IF ~\E p \in text_patterns : StartsWith(s, p) THEN None
    ELSE IF StartsWith(s, <<"t", "e", "x", "t", "=">>) \/ StartsWith(s, <<"t", "e", "x", "t", ":">>)
    THEN Some(Data("tagContainsSelector", SubSeq(s, 6, Len(s)), None))
    ELSE IF Infix(s, <<"c", "o", "n", "t", "a", "i", "n", "s", "(", "t", "e", "x", "t", "(", ")">>)
    THEN LET g == SearchQuoted(s, <<"c", "o", "n", "t", "a", "i", "n", "s", "(", "t", "e", "x", "t", "(", ")", ",">>, FALSE)
         IN  IF g = None THEN None ELSE Some(Data("tagContainsSelector", g[1], None))
    ELSE IF Infix(s, <<"n", "o", "r", "m", "a", "l", "i", "z", "e", "-", "s", "p", "a", "c", "e", "(", "t", "e", "x", "t", "(", ")">>)
    THEN LET g == SearchQuoted(s, <<"n", "o", "r", "m", "a", "l", "i", "z", "e", "-", "s", "p", "a", "c", "e", "(", "t", "e", "x", "t", "(", ")", ")">>, TRUE)
         IN  IF g = None THEN None ELSE Some(Data("tagContainsSelector", g[1], None))
    ELSE None

\* _is_css_selector
is_css_selector(s) ==
    \E k \in 1..Len(s) :
        IsName(SubSeq(s, 1, k)) /\ (k = Len(s) \/ s[k + 1] \in css_followers)

\* ParsedSelector(type, data, original_string)
Parsed(type, data) == [ok |-> TRUE, type |-> type, data |-> data]
ValueError(msg) == [ok |-> FALSE, error |-> msg]

\* SelectorParser.parse / parse_selector
parse_selector(selector_string) ==
    IF selector_string = <<>>
    THEN ValueError("Selector string must be a non-empty string")
    ELSE LET s == strip(selector_string)
         IN  IF is_xpath(s) THEN Parsed("xpathSelector", Data("xpathSelector", s, None))
             ELSE IF parse_attribute_selector(s) # None
             THEN Parsed("attributeValueSelector", parse_attribute_selector(s)[1])
             ELSE IF parse_text_selector(s) # None
             THEN Parsed("textSelector", parse_text_selector(s)[1])
             ELSE IF is_css_selector(s)
             THEN Parsed("cssSelector", Data("cssSelector", s, None))
             ELSE Parsed("tagContainsSelector", Data("tagContainsSelector", s, None))

Classified(s) == [ok |-> TRUE, selector |-> s]

\* a from_string that stores the value as the parser gave it
Selector_from_string_KeepMarker(selector_string) ==
    LET parsed_selector == parse_selector(selector_string)
    IN  IF ~parsed_selector.ok THEN parsed_selector
        ELSE LET data == parsed_selector.data
             IN  IF data.type \notin SelectorTypes
                 THEN ValueError("Unsupported selector type")
                 ELSE Classified(
                        [type |-> data.type, value |-> data.value,
                         attribute |-> data.attribute])

\* Selector.from_string
Selector_from_string(selector_string) ==
    LET parsed_selector == parse_selector(selector_string)
    IN  IF ~parsed_selector.ok THEN parsed_selector
        ELSE LET data == parsed_selector.data
             IN  IF data.type \notin SelectorTypes
                 THEN ValueError("Unsupported selector type")
                 ELSE Classified(
                        [type |-> data.type,
                         value |-> IF \/ data.attribute = Some("id") /\ StartsWith(data.value, <<"#">>)
                                      \/ data.attribute = Some("class") /\ StartsWith(data.value, <<".">>)
                                   THEN Tail(data.value) ELSE data.value,
                         attribute |-> data.attribute])

\* f"[{attribute}='{value}']" and f'[{attribute}="{value}"]'
Bracketed(attribute, q, value) ==
    <<"[">> \o (IF attribute = None THEN <<"N", "o", "n", "e">> ELSE AttrName[attribute[1]])
            \o <<"=", q>> \o value \o <<q, "]">>

\* Selector.to_playwright_selector
Selector_to_playwright_selector(s) ==
    IF s.type = "attributeValueSelector"
    THEN IF s.attribute = Some("id") THEN <<"#">> \o s.value
         ELSE IF s.attribute = Some("class") THEN <<".">> \o s.value
         ELSE Bracketed(s.attribute, "'", s.value)
    ELSE IF s.type = "tagContainsSelector" THEN <<"t", "e", "x", "t", "=">> \o s.value
    ELSE s.value

\* SelectorParser.to_playwright_selector
to_playwright_selector(parsed_selector) ==
    LET data == parsed_selector.data
        value == data.value
    IN  IF parsed_selector.type = "xpathSelector" THEN value
        ELSE IF parsed_selector.type = "attributeValueSelector"
        THEN IF data.attribute = Some("id")
             THEN <<"#">> \o (IF StartsWith(value, <<"#">>) THEN Tail(value) ELSE value)
             ELSE IF data.attribute = Some("class")
             THEN <<".">> \o (IF StartsWith(value, <<".">>) THEN Tail(value) ELSE value)
             ELSE Bracketed(data.attribute, Quote, value)
        ELSE IF parsed_selector.type = "textSelector"
        THEN <<"t", "e", "x", "t", "=">> \o value
        ELSE value

\* selector_to_json: parse_selector(selector_string).data
selector_to_json(selector_string) ==
    LET p == parse_selector(selector_string) IN IF p.ok THEN Some(p.data) ELSE None

\* locator strings of the documentation and the examples
ExampleLocators ==
   {<<"/", "/", "d", "i", "v">>,
    <<"#", "f", "o", "o">>,
    <<"r", "a", "n", "d", "o", "m", " ", "t", "e", "x", "t">>,
    <<"[", "n", "a", "m", "e", "=", "'", "e", "m", "a", "i", "l", "'", "]">>,
    <<"[", "n", "a", "m", "e", "=", "\"", "e", "m", "a", "i", "l", "\"", "]">>,
    <<"t", "e", "x", "t", "=", "S", "u", "b", "m", "i", "t">>,
    <<"b", "u", "t", "t", "o", "n">>,
    <<"c", "o", "n", "t", "a", "i", "n", "s", "(", "t", "e", "x", "t", "(", ")", ",", " ", "\"", "G", "o", "\"", ")">>,
    <<"n", "o", "r", "m", "a", "l", "i", "z", "e", "-", "s", "p", "a", "c", "e", "(", "t", "e", "x", "t", "(", ")", ")", " ", "=", " ", "\"", "G", "o", "\"">>,
    <<"c", "o", "n", "t", "a", "i", "n", "s", "(", "t", "e", "x", "t", "(", ")">>}

Alphabet == {"/", "#", ".", "a", "1", " "}

Locators == UNION {[1..n -> Alphabet] : n \in 0..MaxLocatorLen} \cup ExampleLocators

NotClassified == [ok |-> FALSE, error |-> "none"]

NotConverted == [of_selector |-> None, of_parsed |-> None, json |-> None]

ClassifierInit ==
    /\ locator = <<>> /\ parsed = NotClassified /\ sel = NotClassified
    /\ playwright = NotConverted /\ kpc = "idle"

\* a caller classifies a locator string: Selector.from_string(locator)
Classify ==
    /\ kpc = "idle"
    /\ \E s \in Locators :
          /\ locator' = s
          /\ parsed' = parse_selector(s)
          /\ sel' = Selector_from_string(s)
    /\ kpc' = "classified"
    /\ UNCHANGED <<playwright, codecVars, skillVars, historyVars, genVars, execVars>>

\* the caller converts back: sel.to_playwright_selector(),
\* SelectorParser().to_playwright_selector(parsed), selector_to_json(locator)
ToPlaywrightSelector ==
    /\ kpc = "classified"
    /\ playwright' =
          [of_selector |-> IF sel.ok THEN Some(Selector_to_playwright_selector(sel.selector))
                           ELSE None,
           of_parsed |-> IF parsed.ok THEN Some(to_playwright_selector(parsed)) ELSE None,
           json |-> selector_to_json(locator)]
    /\ kpc' = "converted"
    /\ UNCHANGED <<locator, parsed, sel, codecVars, skillVars, historyVars, genVars, execVars>>

\* TypeAction(_selector=selector, text="a@b.com") from the classified selector
BuildTypeAction ==
    /\ kpc = "classified" /\ sel.ok /\ cpc = "idle"
    /\ act' = [cls |-> "TypeAction", selector |-> Some(sel.selector), text |-> Some("a@b.com")]
    /\ cpc' = "built" /\ kpc' = "built"
    /\ UNCHANGED <<wire, text, dec, locator, parsed, sel, playwright, skillVars, historyVars, genVars, execVars>>

\* the caller takes the next locator
ClassifierReset ==
    /\ kpc # "idle" /\ cpc \in {"idle", "decoded"}
    /\ locator' = <<>> /\ parsed' = NotClassified /\ sel' = NotClassified
    /\ playwright' = NotConverted /\ kpc' = "idle"
    /\ act' = NoAction /\ wire' = EmptyDict /\ text' = <<>> /\ dec' = NoAction
    /\ cpc' = "idle"
    /\ UNCHANGED <<skillVars, historyVars, genVars, execVars>>

ClassifierNext ==
    \/ Classify \/ ToPlaywrightSelector \/ BuildTypeAction \/ ClassifierReset
    \/ ToDict \/ CreateAction \/ ActionToJson \/ JsonToAction

-----------------------------------------------------------------------------
(* The selector generator: selector_generator.py.  Attribute values, class  *)
(* names and text are character strings; an XPath is the list of its parts: *)
(* "//", the tag or "*", then predicate text and values in turn.            *)

MaxCount == 2           \* the largest answer of a count query

\* `len(element_info['text']) < 50`
TextLimit == 50

\* the prefixes of the utility classes left out of the class selector
utility_prefixes ==
   {<<"c", "o", "l", "-">>, <<"r", "o", "w", "-">>, <<"d", "-">>, <<"p", "-">>,
    <<"m", "-">>, <<"t", "e", "x", "t", "-">>, <<"b", "g", "-">>,
    <<"b", "o", "r", "d", "e", "r", "-">>}

\* str.split(): the maximal runs of characters that are no whitespace
RECURSIVE split(_)
split(s) ==
    IF s = <<>> THEN <<>>
    ELSE IF s[1] \in Whitespace THEN split(Tail(s))
    ELSE LET stops == {i \in 1..Len(s) : s[i] \in Whitespace}
             k == IF stops = {} THEN Len(s) + 1
                  ELSE CHOOSE i \in stops : \A j \in stops : i <= j
         IN  <<SubSeq(s, 1, k - 1)>> \o split(SubSeq(s, k, Len(s)))

\* [cls for cls in classes if not cls.startswith((...))]
meaningful_classes(classes) ==
    SelectSeq(classes, LAMBDA cls : ~\E p \in utility_prefixes : StartsWith(cls, p))

unique_attrs ==
    <<"name", "data-testid", "data-id", "href", "src", "title", "placeholder">>

\* f"//*[@{attr}='{value}']" and f"//{tag_name}[@{attr}='{value}']"
Bare(attr, value) == <<"//", "*", "[@" \o attr \o "='", value, "']">>
Qualified(tag_name, attr, value) == <<"//", tag_name, "[@" \o attr \o "='", value, "']">>
\* f"//*[text()='{text}']" and f"//{tag_name}[text()='{text}']"
TextPath(tag_name, value) == <<"//", tag_name, "[text()='", value, "']">>
\* f"//{tag_name}[@{a}='{va}' and @{b}='{vb}']"
Compound(tag_name, a, va, b, vb) ==
    <<"//", tag_name, "[@" \o a \o "='", va, "' and @" \o b \o "='", vb, "']">>

\* _generate_hierarchical_xpath: the in-page walk, "//" put in front when missing
generate_hierarchical_xpath(page) ==
    IF page.fails = "hier" THEN <<"//", "*">>
    ELSE LET xpath == page.hier
         IN  IF xpath[1] # "//" THEN <<"//">> \o xpath ELSE xpath

\* the `except Exception` of _generate_xpath_for_element: "//tag", or "//*"
\* when reading the tag fails as well
Degraded(page) ==
    IF page.tag_readable THEN <<"//", page.info["tagName"]>> ELSE <<"//", "*">>

\* a count check that takes every answer for "unique"
Counted_AlwaysBare(page, bare, qualified) ==
    IF page.fails = "count" THEN Degraded(page) ELSE bare

\* `count = await page.evaluate(...)`, then `if count == 1: ... else: ...`
Counted(page, bare, qualified) ==
    IF page.fails = "count" THEN Degraded(page)
    ELSE IF page.count = 1 THEN bare ELSE qualified

\* _generate_xpath_for_element: the priority chain; every step that finds its
\* attribute returns, bare when the count query answers 1 and tag-qualified
\* otherwise; an exception anywhere gives "//tag", or "//*" when the tag cannot
\* be read either
generate_xpath_for_element(page) ==
    LET element_info == page.info
        tag_name == element_info["tagName"]
        has(k) == element_info[k] # <<>>
        present == {i \in 1..Len(unique_attrs) : has(unique_attrs[i])}
        meaningful == meaningful_classes(split(element_info["className"]))
        counted(bare, qualified) == Counted(page, bare, qualified)
    IN  IF page.fails = "info" THEN Degraded(page)
        ELSE IF has("id")
        THEN counted(Bare("id", element_info["id"]), Qualified(tag_name, "id", element_info["id"]))
        ELSE IF has("className") /\ meaningful # <<>>
        THEN counted(Bare("class", element_info["className"]),
                     Qualified(tag_name, "class", element_info["className"]))
        ELSE IF present # {}
        THEN LET attr == unique_attrs[CHOOSE i \in present : \A j \in present : i <= j]
             IN  counted(Bare(attr, element_info[attr]),
                         Qualified(tag_name, attr, element_info[attr]))
        ELSE IF has("text") /\ Len(element_info["text"]) > 0
                /\ Len(element_info["text"]) < TextLimit
        THEN counted(TextPath("*", element_info["text"]),
                     TextPath(tag_name, element_info["text"]))
        ELSE IF has("className") /\ has("name")
        THEN Compound(tag_name, "class", element_info["className"], "name", element_info["name"])
        ELSE IF has("className") /\ has("type")
        THEN Compound(tag_name, "class", element_info["className"], "type", element_info["type"])
        ELSE IF has("name") /\ has("type")
        THEN Compound(tag_name, "name", element_info["name"], "type", element_info["type"])
        ELSE IF has("className") THEN Qualified(tag_name, "class", element_info["className"])
        ELSE IF has("name") THEN Qualified(tag_name, "name", element_info["name"])
        ELSE IF has("type") THEN Qualified(tag_name, "type", element_info["type"])
        ELSE generate_hierarchical_xpath(page)

\* a parse that lets the failure of the page query reach its caller
SelectorGenerator_parse_Unguarded(page, mmid) ==
    IF mmid = <<>> THEN [kind |-> "returned", value |-> None]
    ELSE IF page.query = "raises" THEN [kind |-> "raised", value |-> None]
    ELSE IF page.query = "found"
    THEN [kind |-> "returned", value |-> Some(generate_xpath_for_element(page))]
    ELSE [kind |-> "returned", value |-> None]

\* SelectorGenerator.parse: None for an empty locator, for no element and for a
\* failing page query; otherwise the XPath of the first element.  page.query is
\* what query_selector_all answers for the stripped locator.
SelectorGenerator_parse(page, mmid) ==
    IF mmid = <<>> THEN [kind |-> "returned", value |-> None]
    ELSE IF page.query = "raises" THEN [kind |-> "returned", value |-> None]
    ELSE IF page.query = "found"
    THEN [kind |-> "returned", value |-> Some(generate_xpath_for_element(page))]
    ELSE [kind |-> "returned", value |-> None]

\* the values an element's properties take here ("" when the element lacks them)
Chars49 == [i \in 1..(TextLimit - 1) |-> "x"]
Texts == {<<>>, <<"G", "o">>, Chars49, Chars49 \o <<"x">>}
ClassNames ==
   {<<>>, <<"b", "t", "n">>, <<"c", "o", "l", "-", "6">>,
    <<"c", "o", "l", "-", "6", " ", "b", "t", "n">>}
Ids == {<<>>, <<"s", "u", "b", "m", "i", "t">>}
Names == {<<>>, <<"q">>}
Types == {<<>>, <<"t", "e", "x", "t">>}
Hrefs == {<<>>, <<"/", "x">>}

\* the object the in-page script of _generate_xpath_for_element returns
ElementInfo(id, className, name, type, text_content, href) ==
    [k \in {"tagName", "id", "className", "name", "type", "value", "text", "href",
            "src", "title", "placeholder", "data-testid", "data-id", "data-value"} |->
        CASE k = "tagName" -> "button"
          [] k = "id" -> id
          [] k = "className" -> className
          [] k = "name" -> name
          [] k = "type" -> type
          [] k = "text" -> text_content
          [] k = "href" -> href
          [] OTHER -> <<>>]

\* what the in-page ancestor walk returns
HierPaths == {<<"body">>, <<"body", "/button[1]">>}

MmidLocators == {<<>>, <<"[", "m", "m", "i", "d", "=", "'", "1", "'", "]">>}

NoPage ==
    [query |-> "none", info |-> ElementInfo(<<>>, <<>>, <<>>, <<>>, <<>>, <<>>),
     fails |-> "none", count |-> 0, tag_readable |-> TRUE, hier |-> <<"body">>]

GeneratorInit ==
    /\ selector_with_mmid = <<>> /\ dom = NoPage
    /\ xpath_selector = [kind |-> "none", value |-> None] /\ gpc = "idle"

\* generate_selector(page, selector_with_mmid) against some page
Synthesize ==
    /\ gpc = "idle"
    /\ \E l \in MmidLocators, q \in {"raises", "none", "found"},
          f \in {"none", "info", "count", "hier"}, c \in 0..MaxCount,
          r \in BOOLEAN, h \in HierPaths :
       \E id \in Ids, cn \in ClassNames, n \in Names, ty \in Types, tx \in Texts,
          hr \in Hrefs :
          /\ selector_with_mmid' = l
          /\ dom' = [query |-> q, info |-> ElementInfo(id, cn, n, ty, tx, hr),
                     fails |-> f, count |-> c, tag_readable |-> r, hier |-> h]
          /\ xpath_selector' = SelectorGenerator_parse(dom', l)
    /\ gpc' = "returned"
    /\ UNCHANGED <<codecVars, skillVars, historyVars, classVars, execVars>>

\* the caller takes the next element
GeneratorReset ==
    /\ gpc = "returned"
    /\ selector_with_mmid' = <<>> /\ dom' = NoPage
    /\ xpath_selector' = [kind |-> "none", value |-> None] /\ gpc' = "idle"
    /\ UNCHANGED <<codecVars, skillVars, historyVars, classVars, execVars>>

GeneratorNext == Synthesize \/ GeneratorReset

-----------------------------------------------------------------------------
(* The action executor: playwright_action_executor.py, and validate_selector *)
(* of playwright_actions.py.  An action and a selector are dictionaries; a   *)
(* selector's value is a character string.                                   *)

MaxActions == 2         \* the longest list handed to execute_actions

\* `if not x`: the key is missing (the values used here are never empty)
Missing(d, k) == k \notin DOMAIN d

\* validate_selector(selector_dict)
validate_selector(selector_dict) ==
    IF Missing(selector_dict, "type") \/ Missing(selector_dict, "value") THEN FALSE
    ELSE IF selector_dict["type"] = "attributeValueSelector"
    THEN /\ ~Missing(selector_dict, "attribute")
         /\ selector_dict["attribute"] \in {"id", "class", "name"}
    ELSE IF selector_dict["type"] = "tagContainsSelector" THEN TRUE
    ELSE IF selector_dict["type"] = "xpathSelector"
    THEN StartsWith(selector_dict["value"], <<"/">>)
    ELSE FALSE

\* PlaywrightActionExecutor.supported_actions: per action type the keys its
\* handler requires, the selectors it validates and the skill it awaits
supported_actions ==
    [click |-> [required |-> {"selector"}, validated |-> {"selector"}, skill |-> "click"],
     drag_and_drop |->
        [required |-> {"source_selector", "target_selector"},
         validated |-> {"source_selector", "target_selector"}, skill |-> "drag_and_drop"],
     enter_text_and_click |->
        [required |-> {"text_selector", "text_to_enter", "click_selector"},
         validated |-> {"text_selector", "click_selector"}, skill |-> "enter_text_and_click"],
     enter_text |->
        [required |-> {"selector", "text_to_enter"}, validated |-> {"selector"},
         skill |-> "entertext"],
     open_url |-> [required |-> {"url"}, validated |-> {}, skill |-> "openurl"],
     submit_form |->
        [required |-> {"selector"}, validated |-> {"selector"}, skill |-> "submit_form"]]

\* execute_action up to the point where it awaits the skill: the ValueError it
\* raises, or the skill it calls
execute_action(action_data) ==
    IF Missing(action_data, "action")
    THEN [raises |-> TRUE, what |-> "Action type is required"]
    ELSE IF action_data["action"] \notin DOMAIN supported_actions
    THEN [raises |-> TRUE, what |-> "Unsupported action type"]
    ELSE LET handler == supported_actions[action_data["action"]]
         IN  IF \E k \in handler.required : Missing(action_data, k)
             THEN [raises |-> TRUE, what |-> "required field missing"]
             ELSE IF \E k \in handler.validated : ~validate_selector(action_data[k])
             THEN [raises |-> TRUE, what |-> "Invalid selector format"]
             ELSE [raises |-> FALSE, what |-> handler.skill]

\* action_data.get("action")
ActionOf(action_data) ==
    IF Missing(action_data, "action") THEN None ELSE Some(action_data["action"])

\* selectors as callers write them
XPathOk == [type |-> "xpathSelector", value |-> <<"/", "/", "a">>]
XPathBad == [type |-> "xpathSelector", value |-> <<"a">>]
IdSelector == [type |-> "attributeValueSelector", attribute |-> "id", value |-> <<"a">>]
HrefSelector == [type |-> "attributeValueSelector", attribute |-> "href", value |-> <<"a">>]

\* the action dictionaries tried
ExecutorActions ==
    <<[action |-> "click", selector |-> XPathOk],
      [action |-> "click", selector |-> XPathBad],
      [action |-> "click", description |-> "no selector"],
      [selector |-> XPathOk],
      [action |-> "hover", selector |-> XPathOk],
      [action |-> "submit_form", selector |-> IdSelector],
      [action |-> "drag_and_drop", source_selector |-> IdSelector,
       target_selector |-> HrefSelector],
      [action |-> "open_url", url |-> "https://example.com"],
      [action |-> "enter_text", selector |-> [type |-> "tagContainsSelector",
                                              value |-> <<"a">>],
       text_to_enter |-> "x"]>>

ExecutorInit ==
    /\ actions_json = <<>> /\ results = <<>> /\ calls = <<>>
    /\ eidx = 0 /\ epc = "idle"

\* execute_actions(actions_json) is called with a list
ExecuteActions ==
    /\ epc = "idle"
    /\ \E n \in 0..MaxActions : \E pick \in [1..n -> DOMAIN ExecutorActions] :
          actions_json' = [i \in 1..n |-> ExecutorActions[pick[i]]]
    /\ results' = <<>> /\ calls' = <<>> /\ eidx' = 1 /\ epc' = "loop"
    /\ UNCHANGED <<codecVars, skillVars, historyVars, classVars, genVars>>

\* a loop whose first failing action ends it
Dispatch_AbortOnError ==
    /\ epc = "loop" /\ eidx <= Len(actions_json)
    /\ LET action_data == actions_json[eidx]
           r == execute_action(action_data)
       IN  IF r.raises
           THEN /\ results' = Append(results, [action |-> ActionOf(action_data),
                                               status |-> "error", detail |-> r.what])
                /\ eidx' = Len(actions_json) + 1
                /\ UNCHANGED <<calls, epc>>
           ELSE /\ calls' = Append(calls, [index |-> eidx, skill |-> r.what,
                                           phase |-> "start"])
                /\ epc' = "in_skill"
                /\ UNCHANGED <<results, eidx>>
    /\ UNCHANGED <<actions_json, codecVars, skillVars, historyVars, classVars, genVars>>

\* one turn of the loop up to the skill call: execute_action raises and the
\* handler appends an error entry, or the skill coroutine is started
Dispatch ==
    /\ epc = "loop" /\ eidx <= Len(actions_json)
    /\ LET action_data == actions_json[eidx]
           r == execute_action(action_data)
       IN  IF r.raises
           THEN /\ results' = Append(results, [action |-> ActionOf(action_data),
                                               status |-> "error", detail |-> r.what])
                /\ eidx' = eidx + 1
                /\ UNCHANGED <<calls, epc>>
           ELSE /\ calls' = Append(calls, [index |-> eidx, skill |-> r.what,
                                           phase |-> "start"])
                /\ epc' = "in_skill"
                /\ UNCHANGED <<results, eidx>>
    /\ UNCHANGED <<actions_json, codecVars, skillVars, historyVars, classVars, genVars>>

\* the awaited skill returns its string or raises; the entry is appended
SkillDone ==
    /\ epc = "in_skill"
    /\ calls' = Append(calls, [calls[Len(calls)] EXCEPT !.phase = "end"])
    /\ \E raised \in BOOLEAN :
          results' = Append(results,
                            [action |-> ActionOf(actions_json[eidx]),
                             status |-> IF raised THEN "error" ELSE "success",
                             detail |-> calls[Len(calls)].skill])
    /\ eidx' = eidx + 1 /\ epc' = "loop"
    /\ UNCHANGED <<actions_json, codecVars, skillVars, historyVars, classVars, genVars>>

\* `return results`
ExecuteReturn ==
    /\ epc = "loop" /\ eidx > Len(actions_json)
    /\ epc' = "returned"
    /\ UNCHANGED <<actions_json, results, calls, eidx, codecVars, skillVars,
                   historyVars, classVars, genVars>>

\* the caller takes the results
ExecutorReset ==
    /\ epc = "returned"
    /\ actions_json' = <<>> /\ results' = <<>> /\ calls' = <<>>
    /\ eidx' = 0 /\ epc' = "idle"
    /\ UNCHANGED <<codecVars, skillVars, historyVars, classVars, genVars>>

ExecutorNext == ExecuteActions \/ Dispatch \/ SkillDone \/ ExecuteReturn \/ ExecutorReset

-----------------------------------------------------------------------------
Init ==
    /\ CodecInit /\ SkillInit /\ HistoryInit /\ ClassifierInit
    /\ GeneratorInit /\ ExecutorInit

\* the codec and the skills run with nothing persisted yet
InitNoFile ==
    /\ CodecInit /\ SkillInit /\ ClassifierInit /\ GeneratorInit /\ ExecutorInit
    /\ hpc = "new" /\ history = <<>> /\ max_history_size = 0
    /\ file = [state |-> "absent", data |-> <<>>]
    /\ appended = <<>> /\ loaded = <<>> /\ nextId = 1 /\ hret = NoCall

SpecCodec == InitNoFile /\ [][CodecNext]_vars
SpecSkill == InitNoFile /\ [][SkillNext]_vars
SpecHistory == Init /\ [][HistoryNext]_vars
SpecClassifier == InitNoFile /\ [][ClassifierNext]_vars
SpecGenerator == InitNoFile /\ [][GeneratorNext]_vars
SpecExecutor == InitNoFile /\ [][ExecutorNext]_vars

Next ==
    \/ CodecNext \/ SkillNext \/ HistoryNext \/ ClassifierNext
    \/ GeneratorNext \/ ExecutorNext
Spec == Init /\ [][Next]_vars

-----------------------------------------------------------------------------
(* The claims                                                               *)

\* C1: round-trip law: for every variant and every well-formed action a,
\* ActionFactory.create_action(a.to_dict()) = a and
\* json_to_action(action_to_json(a)) = a.
C1_RoundTripLaw == cpc = "decoded" => dec = act

\* C2: the mutation-observer callback an invocation registered is unregistered by
\* the time the invocation returns or raises, so none is still subscribed when the
\* next action begins.
C2_CallbackReleased == pc \in {"done", "idle"} => observers = {}

\* C3: no exception other than 'No active page found' escapes an interactive skill.
C3_OnlyNoActivePageEscapes ==
    (entry = "skill" /\ outcome.kind = "raised") => outcome.value = <<NoActivePage>>

\* the fallback ran once and the dict do_drag_and_drop returned is the one built from
\* what the fallback produced
FallbackDecided ==
    /\ steps.fallback = 1 /\ fallback_res # None
    /\ result = IF fallback_res.raised THEN Unable(skill, fallback_res.value)
                ELSE Done(fallback_res.value, outer_html[1])

C5_BothErrorsSurfaced ==
    (primary_err # None /\ fallback_res # None /\ result # NoResult) =>
        (fallback_res.raised =>
            /\ Contains(result.detailed_message, primary_err[1])
            /\ Contains(result.detailed_message, fallback_res.value))

\* C6: every description the callback delivered during the window is in the message
\* the skill returns, together with the directive to re-fetch the DOM.
C6_MutationCorrelation ==
    outcome.kind = "returned" =>
        \A i \in 1..Len(fired) :
            /\ Contains(outcome.value, fired[i])
            /\ Contains(outcome.value, RefetchDirective)

\* an attach wait of this invocation timed out or gave no element
AttachFailed == \E i \in 1..Len(attached) : attached[i] # "element"

\* C7: a failed attach wait is terminal: the failure result with the guidance message
\* is returned, no target is waited for twice, and neither the primary interaction nor
\* the fallback is attempted.
C7_AttachFailureTerminal ==
    AttachFailed =>
        /\ steps.primary = 0 /\ steps.fallback = 0
        /\ Len(attached) <= NumTargets(skill)
        /\ pc \notin {"prep", "diag", "primary", "fallback"}
        /\ pc # "attach" =>
              /\ result.summary_message = <<UnableText(skill), Guidance(skill)>>
              /\ Contains(result.detailed_message, Guidance(skill))

C7_Witness ==
    /\ skill = "drag_and_drop" /\ attached = <<"element", "none">> /\ pc = "done"
    /\ result = Unable(skill, "ValueError: element not found")

\* C8: every completed invocation of an interactive skill adds exactly one
\* ActionRecord to the Action History.
C8_RecordPerInvocation ==
    (entry = "skill" /\ outcome.kind = "returned") => recorded = 1

\* the last n elements of s
LastN(s, n) == SubSeq(s, Len(s) - n + 1, Len(s))

\* C9: from an empty history with max_history_size = M, appending M + k records
\* (k >= 1) leaves exactly the M most recent ones, in append order.
C9_HistoryEviction ==
    (hpc = "ready" /\ loaded = <<>> /\ Len(appended) > max_history_size) =>
        history = LastN(appended, max_history_size)

\* C10: after construction (which loads the persisted file) and after any add_action
\* or clear_history, the log holds at most max_history_size records; stated for a
\* positive max_history_size.
C10_SizeBounded ==
    (hpc = "ready" /\ max_history_size >= 1) => Len(history) <= max_history_size

\* every action_data of the log is a value JSON reads back as it was written
JsonNative(h) == \A i \in 1..Len(h) : json_value(h[i].action_data) = h[i].action_data

Min(a, b) == IF a < b THEN a ELSE b

\* C12: get_recent_actions(n), n >= 0, returns the min(n, len(history)) most recently
\* appended records in append order (at most n) and leaves the history unchanged.
C12_RecentN ==
    (hpc = "ready" /\ hret.op = "recent") =>
        /\ Len(hret.value) <= hret.limit
        /\ hret.value = LastN(history, Min(hret.limit, Len(history)))

\* C13: a failed load at construction raises nothing and leaves an empty log; a failed
\* save in add_action raises nothing, the created record is returned and is the last
\* record of the in-memory log.
C13_PersistenceNonFatal ==
    /\ hret.op = "init" =>
          /\ hret.kind = "returned" /\ hpc = "ready"
          /\ file.state # "valid" => history = <<>>
    /\ hret.op = "add" =>
          /\ hret.kind = "returned"
          /\ hret.value = <<appended[Len(appended)]>>
          /\ history # <<>> /\ history[Len(history)] = hret.value[1]

C13_Witness ==
    /\ hret.op = "add" /\ hret.kind = "returned" /\ hret.save = "dump_failed"
    /\ file.state = "corrupt" /\ history # <<>>
    /\ history[Len(history)] = hret.value[1]

\* C14: the classifier is total: for every non-empty locator string,
\* Selector.from_string raises nothing and returns a Selector whose type is one of
\* attributeValueSelector, tagContainsSelector, xpathSelector.
C14_ClassifierTotal ==
    (kpc # "idle" /\ locator # <<>>) =>
        (sel.ok /\ sel.selector.type \in SelectorTypes)

\* C15: classifier precedence, for the example locators: an XPath prefix gives an XPath
\* selector whose value is the string unchanged; otherwise "#name" gives
\* AttributeValue(id, name); a string matched by neither the XPath rule nor the
\* attribute table gives TagContains whose value is the string verbatim.
C15_ClassifierPrecedence ==
    (kpc # "idle" /\ locator \in ExampleLocators) =>
        IF is_xpath(locator)
        THEN sel = Classified([type |-> "xpathSelector", value |-> locator,
                               attribute |-> None])
        ELSE IF locator[1] = "#" /\ IsName(Tail(locator))
        THEN sel = Classified([type |-> "attributeValueSelector", value |-> Tail(locator),
                               attribute |-> Some("id")])
        ELSE parse_attribute_selector(locator) = None =>
                sel = Classified([type |-> "tagContainsSelector", value |-> locator,
                                  attribute |-> None])

\* the locator [name='email']
EmailLocator == <<"[", "n", "a", "m", "e", "=", "'", "e", "m", "a", "i", "l", "'", "]">>

\* C16: classifying [name='email'] yields AttributeValue(name, "email"), and the
\* TypeAction built from it with text "a@b.com" equals itself after encode and decode.
C16_EndToEnd ==
    (kpc # "idle" /\ locator = EmailLocator) =>
        /\ sel = Classified([type |-> "attributeValueSelector",
                             value |-> <<"e", "m", "a", "i", "l">>,
                             attribute |-> Some("name")])
        /\ cpc = "decoded" => dec = act


-----------------------------------------------------------------------------
\* C17: the factory dispatches on the "type" tag.  For a wire dictionary whose
\* tag is one of the 13 recognised strings create_action returns an action of
\* exactly that variant; for an absent or unrecognised tag it fails with
\* "Unknown action type" and constructs no action; json_to_actions fails as a
\* whole, returning no list, when any element carries an unrecognised tag.
Recognised(d) == \E c \in Classes : Get(d, "type") = Some(ActionType[c])

C17_FactoryDispatch ==
    /\ cpc = "received" =>
          IF Recognised(wire)
          THEN dec.cls \in Classes /\ Some(ActionType[dec.cls]) = Get(wire, "type")
          ELSE dec = UnknownActionType
    /\ cpc = "listed" =>
          IF \E i \in 1..Len(text) : ~Recognised(json_loads(text[i]))
          THEN dec = UnknownActionType
          ELSE /\ dec.cls = "list" /\ Len(dec.actions) = Len(text)
               /\ \A i \in 1..Len(text) :
                     Some(ActionType[dec.actions[i].cls]) = Get(json_loads(text[i]), "type")

C17_Witness ==
    /\ cpc = "listed" /\ Len(text) = 2
    /\ Recognised(json_loads(text[1])) /\ ~Recognised(json_loads(text[2]))
    /\ dec = UnknownActionType

-----------------------------------------------------------------------------
\* C18: decoding a wire action that lacks a field its variant requires (a
\* "type" action without "text", a "select" without "value", a "wait" without
\* "time_seconds", a drag-and-drop without "source_selector") raises a
\* validation error; the field is never silently given a default.
RequiredField ==
    [type |-> "text", select |-> "value", wait |-> "time_seconds",
     dragAndDrop |-> "source_selector"]

LacksRequired(d) ==
    \E tag \in DOMAIN RequiredField :
        Get(d, "type") = Some(tag) /\ RequiredField[tag] \notin DOMAIN d

C18_MissingFieldRaises ==
    (cpc = "received" /\ LacksRequired(wire)) => dec.cls \notin Classes

-----------------------------------------------------------------------------
\* C19: for every DragAndDropAction the selector accessor returns the target
\* selector, the encoded "selector" field equals the encoded
\* "target_selector" field, and both still hold of decode(encode(a)).
C19_DragSelectorIsTarget ==
    act.cls = "DragAndDropAction" =>
        /\ selector(act) = act.target_selector
        /\ cpc \in {"encoded", "decoded"} /\ wire # EmptyDict =>
              wire["selector"] = wire["target_selector"]
        /\ cpc = "decoded" =>
              /\ dec.cls = "DragAndDropAction"
              /\ selector(dec) = dec.target_selector
              /\ selector(dec) = selector(act)
              /\ wire # EmptyDict =>
                    to_dict(dec)["selector"] = to_dict(dec)["target_selector"]

C19_Witness ==
    /\ cpc = "decoded" /\ act.cls = "DragAndDropAction"
    /\ act.target_selector # None /\ act.source_selector # None
    /\ act.target_selector # act.source_selector
    /\ selector(dec) = act.target_selector

-----------------------------------------------------------------------------
\* C20: the detailed_message of the result of every interactive skill embeds
\* the outer markup captured before the mutating step, whatever the outcome
\* (success, primary failure with fallback, terminal failure after the target
\* was attached).  Stated for the results produced after the capture.
C20_DetailedEmbedsDiagnostics ==
    (result # NoResult /\ outer_html # None) =>
        Contains(result.detailed_message, outer_html[1])

-----------------------------------------------------------------------------
\* C23: the mutation callback of an invocation is registered immediately
\* before the primary attempt, after the pre-delay, the attach wait, the
\* visibility preparation and the diagnostic capture, and is unregistered
\* only after the settle delay: while the invocation is in one of the four
\* earlier steps its callback is not yet registered.
C23_SubscribedJustBeforePrimary ==
    pc \in {"predelay", "attach", "prep", "diag"} => invId \notin observers

-----------------------------------------------------------------------------
\* C27: the string a skill returns begins with "Success:" only if the action
\* succeeded: when do_<skill> returned its "Unable to ..." result the returned
\* string does not begin with "Success:" and carries the error detail, also
\* when the mutation callback delivered a description during the window.
C27_SuccessOnlyOnSuccess ==
    (outcome.kind = "returned" /\ result.summary_message # <<>>
        /\ result.summary_message[1] = UnableText(skill)) =>
        /\ outcome.value[1] # "Success:"
        /\ Contains(outcome.value, "Error:")

-----------------------------------------------------------------------------
\* C28: with no active page, drag_and_drop, select_option and submit_form
\* raise "No active page found" as their first observable effect: nothing was
\* appended to the Action History, no mutation callback registered and no
\* page operation attempted.
C28_NoPageRaisesFirst ==
    (entry = "skill" /\ ~active_page /\ pc = "done") =>
        /\ outcome = [kind |-> "raised", value |-> <<NoActivePage>>]
        /\ recorded = 0 /\ invId \notin observers
        /\ attached = <<>> /\ steps = [primary |-> 0, fallback |-> 0]

-----------------------------------------------------------------------------
\* C30: do_select_option performs the native selection only when the
\* attached element's tag is "select"; for any other tag it returns the
\* failure result without a selection; the tag check comes after the attach
\* wait and before the selection.
C30_SelectOnlyOnSelectTag ==
    skill = "select_option" =>
        /\ steps.primary > 0 =>
              element_tag_name = Some("select") /\ attached = <<"element">>
        /\ (result # NoResult /\ element_tag_name \notin {None, Some("select")}) =>
              /\ steps.primary = 0 /\ attached = <<"element">>
              /\ result = Unable(skill, "ValueError: not a select element")

C30_Witness ==
    /\ skill = "select_option" /\ element_tag_name = Some("div")
    /\ result = Unable(skill, "ValueError: not a select element")
    /\ steps.primary = 0 /\ attached = <<"element">>

-----------------------------------------------------------------------------
\* C26: for every locator matching the id pattern "#name" or the class
\* pattern ".name", the classifier's wire value keeps the leading marker
\* (selector_to_json(s)["value"] = s), Selector.from_string(s) stores the
\* value with exactly that one marker removed, and converting back gives the
\* locator again, from the Selector and from the ParsedSelector.
IdOrClass(s) == Len(s) >= 2 /\ s[1] \in {"#", "."} /\ IsName(Tail(s))

C26_MarkerHandling ==
    (kpc = "converted" /\ IdOrClass(locator)) =>
        /\ playwright.json # None /\ playwright.json[1].value = locator
        /\ playwright.json[1].attribute = Some(IF locator[1] = "#" THEN "id" ELSE "class")
        /\ sel.ok /\ sel.selector.value = Tail(locator)
        /\ playwright.of_selector = Some(locator)
        /\ playwright.of_parsed = Some(locator)

C26_Witness ==
    /\ kpc = "converted" /\ locator = <<".", "a", "1">>
    /\ sel.ok /\ sel.selector.value = <<"a", "1">>
    /\ playwright.of_selector = Some(locator)

-----------------------------------------------------------------------------
\* C21: synthesis never throws to its caller.  SelectorGenerator.parse returns
\* None for an empty locator, for a locator matching no element and for a
\* failing page query; with an element found, a failure inside the chain
\* degrades to "//tag", or to "//*" if the tag cannot be read; the result is
\* always None or a string beginning with "//".
Synthesized == gpc = "returned" /\ selector_with_mmid # <<>> /\ dom.query = "found"

-----------------------------------------------------------------------------
\* C22: synthesizer uniqueness.  For an element that has an id the result is
\* an id-based path whatever its other attributes (bare when the id count is
\* 1, tag-qualified otherwise); for an element with no id and a class the
\* result is the class path, tag-qualified when the class is shared and bare
\* only when it is unique.  Stated for runs in which no page query fails and
\* the count query counts the element itself.
ClassPaths ==
    {Some(Bare("class", dom.info["className"])),
     Some(Qualified("button", "class", dom.info["className"]))}

C22_IdOrClassPath ==
    (Synthesized /\ dom.fails = "none" /\ dom.count >= 1) =>
        /\ dom.info["id"] # <<>> =>
              xpath_selector.value =
                  Some(IF dom.count = 1 THEN Bare("id", dom.info["id"])
                       ELSE Qualified("button", "id", dom.info["id"]))
        /\ (dom.info["id"] = <<>> /\ dom.info["className"] # <<>>) =>
              xpath_selector.value \in ClassPaths

\* C22 as amended: the class step applies to an element that has a class
\* outside the utility denylist; the count is that of the remaining classes.
C22_IdOrMeaningfulClassPath ==
    (Synthesized /\ dom.fails = "none") =>
        /\ dom.info["id"] # <<>> =>
              xpath_selector.value =
                  Some(IF dom.count = 1 THEN Bare("id", dom.info["id"])
                       ELSE Qualified("button", "id", dom.info["id"]))
        /\ (dom.info["id"] = <<>>
              /\ meaningful_classes(split(dom.info["className"])) # <<>>) =>
              xpath_selector.value =
                  Some(IF dom.count = 1 THEN Bare("class", dom.info["className"])
                       ELSE Qualified("button", "class", dom.info["className"]))

C22_Witness ==
    /\ Synthesized /\ dom.fails = "none" /\ dom.info["id"] = <<>>
    /\ dom.info["className"] = <<"c", "o", "l", "-", "6", " ", "b", "t", "n">>
    /\ dom.info["name"] # <<>> /\ dom.count = 2
    /\ xpath_selector.value = Some(Qualified("button", "class", dom.info["className"]))

-----------------------------------------------------------------------------
\* C24: the synthesizer emits a text-based locator only if the element's
\* trimmed text is non-empty, shorter than 50 characters and unique among the
\* elements with that text; when the text is not unique no text-based locator
\* is emitted and the chain goes on.  Stated for runs in which no page query
\* fails and the count query counts the element itself.
IsTextPath(x) == x # None /\ Len(x[1]) >= 3 /\ x[1][3] = "[text()='"

C24_TextOnlyIfUnique ==
    (Synthesized /\ dom.fails = "none" /\ dom.count >= 1
        /\ IsTextPath(xpath_selector.value)) =>
        /\ Len(dom.info["text"]) > 0 /\ Len(dom.info["text"]) < TextLimit
        /\ dom.count = 1

-----------------------------------------------------------------------------
\* C25: for an element with no id whose single attributes each fail the
\* page-wide uniqueness check and which has one of the pairs class+name,
\* class+type, name+type, the result is the tag-qualified conjunction of that
\* pair.  Stated for runs in which no page query fails and the attribute
\* checked is shared by another element.
C25_CompoundStep ==
    (Synthesized /\ dom.fails = "none" /\ dom.info["id"] = <<>> /\ dom.count >= 2) =>
        LET has(k) == dom.info[k] # <<>>
            v(k) == dom.info[k]
        IN  /\ (has("className") /\ has("name")) =>
                  xpath_selector.value =
                      Some(Compound("button", "class", v("className"), "name", v("name")))
            /\ (has("className") /\ ~has("name") /\ has("type")) =>
                  xpath_selector.value =
                      Some(Compound("button", "class", v("className"), "type", v("type")))
            /\ (~has("className") /\ has("name") /\ has("type")) =>
                  xpath_selector.value =
                      Some(Compound("button", "name", v("name"), "type", v("type")))

-----------------------------------------------------------------------------
\* C29: execute_actions runs the actions in list order, one completing before
\* the next starts, and returns one result entry per action in the same
\* order; an action that raises gives a status "error" entry and the
\* remaining actions are still executed; no skill is invoked for an action one
\* of whose selectors fails validate_selector.
Started == {j \in 1..Len(calls) : calls[j].phase = "start"}

C29_ExecuteActionsInOrder ==
    /\ epc \in {"loop", "in_skill", "returned"} =>
          /\ Len(results) = eidx - 1
          /\ \A i \in 1..Len(results) :
                /\ results[i].action = ActionOf(actions_json[i])
                /\ execute_action(actions_json[i]).raises =>
                      results[i].status = "error" /\ \A j \in Started : calls[j].index # i
                /\ ~execute_action(actions_json[i]).raises =>
                      \E j \in Started :
                          /\ calls[j].index = i
                          /\ calls[j].skill = execute_action(actions_json[i]).what
          /\ \A j \in 1..Len(calls) :
                /\ calls[j].phase = (IF j % 2 = 1 THEN "start" ELSE "end")
                /\ (j % 2 = 0) => calls[j].index = calls[j - 1].index
                /\ (j % 2 = 1 /\ j > 1) => calls[j].index > calls[j - 1].index
                /\ LET d == actions_json[calls[j].index]
                   IN  \A k \in supported_actions[d["action"]].validated :
                           validate_selector(d[k])
    /\ epc = "returned" => Len(results) = Len(actions_json)

C29_Witness ==
    /\ epc = "returned" /\ Len(actions_json) = 2
    /\ ~Missing(actions_json[1], "selector")
    /\ ~validate_selector(actions_json[1]["selector"])
    /\ results[1].status = "error" /\ results[2].status = "success"
    /\ Len(calls) = 2 /\ calls[1].index = 2


====
